---- MODULE Spec2Model ----
(***************************************************************************)
(* The session store of the AI agent application                           *)
(* (src/ai_agent_app/modules/session_manager.py): four SQLite tables, the  *)
(* append / load / clear / export / import operations of SessionManager,   *)
(* Python's json conversions and the sqlite3 connection each operation     *)
(* opens; and the ApplicationController                                    *)
(* (src/ai_agent_app/modules/application_controller.py) with the state its *)
(* modules keep in memory: the NLP context, the scraping and analysis      *)
(* histories, the API request history and the API keys.                    *)
(***************************************************************************)
EXTENDS Integers, Sequences, FiniteSets, TLC

\* Bound: rows inserted over a run (the sum of the AUTOINCREMENT counters).
MaxInserts == 2

\* Bound: calls of one process that commit while another process exports.
MaxConcurrentWrites == 2

VARIABLES
    conversations,      \* table conversations(id, timestamp, conversation_data)
    preferences,        \* table preferences(key, value)
    scraping_results,   \* table scraping_results(id, timestamp, url, data)
    analysis_results,   \* table analysis_results(id, timestamp, description, data)
    sqlite_sequence,    \* SQLite's AUTOINCREMENT counters, one per table
    leaked_txn,         \* an unclosed connection still holds an open write transaction
    file,               \* content of the export file
    now,                \* the local time: an index into Clock
    last,               \* the call that has just returned, until the caller has taken its result
    appended,           \* history: rows appended by save_* since the last clear or import
    issued,             \* history: every id a committed row has ever had, per table
    memory,             \* in-memory state of the controller's modules
    exporting,          \* an export_all_data call of a second process, statement by statement
    time,               \* time.time(): the number of requests recorded so far
    recorded            \* history: the requests recorded since the last clear_history

vars == <<conversations, preferences, scraping_results, analysis_results,
          sqlite_sequence, leaked_txn, file, now, last, appended, issued, memory, exporting,
          time, recorded>>

AutoIdTables == {"conversations", "scraping_results", "analysis_results"}

(***************************************************************************)
(* Python values and their JSON text.  json.dumps writes a tuple as an     *)
(* array and a non-string key as a string, and rejects a set.              *)
(***************************************************************************)
PyList == "['a']"
PyTuple == "('a',)"
PyDict == "{'1': 'x'}"
PyIntKeyDict == "{1: 'x'}"
PySet == "{'a'}"
PyValues == {PyList, PyTuple, PyDict, PyIntKeyDict, PySet}

JsonArray == "[\"a\"]"
JsonObject == "{\"1\": \"x\"}"

(***************************************************************************)
(* The values the controller saves: the NLP context, a list of messages    *)
(* {'role': ..., 'content': ...}, and the API keys, a dict of provider to  *)
(* key.  In the model a context is a sequence of message records and the   *)
(* keys a sequence of <<provider, key>>; the store is handed their Python  *)
(* literal, and json.dumps writes the JSON text of it.                     *)
(***************************************************************************)
MaxMessages == 3

UserInputs == {"hi"}
ResponseText == "hello"
DefaultResponse == "Sorry, I couldn't process your request."
KeyNotSet == "Gemini API key not set"
UnknownProvider == "Unknown provider: unknown"
RequestException == "timeout"
Placeholder ==
    "This is a placeholder response from the gemini provider. "
        \o "In a complete implementation, this would process: 'hi'"

Message(role, content) == [role |-> role, content |-> content]

Messages ==
    {Message("user", u) : u \in UserInputs}
        \cup {Message("assistant", c) :
                c \in {ResponseText, DefaultResponse, "Error: " \o KeyNotSet,
                       "Error: " \o UnknownProvider, "Error: " \o RequestException,
                       Placeholder}}

Contexts == UNION {[1..n -> Messages] : n \in 0..MaxMessages}

ApiKeyInputs == {<<"gemini", "k1">>, <<"gemini", "k2">>, <<"mistral", "k1">>}

KeyMaps ==
    {m \in UNION {[1..n -> ApiKeyInputs] : n \in 0..2} :
        \A i, j \in DOMAIN m : i # j => m[i][1] # m[j][1]}

\* ', '.join(texts)
RECURSIVE Join(_)
Join(texts) ==
    IF texts = <<>> THEN ""
    ELSE IF Len(texts) = 1 THEN texts[1]
    ELSE texts[1] \o ", " \o Join(Tail(texts))

\* repr of a str: in double quotes when the text holds an apostrophe.
StrLiteral(text) ==
    IF text \in {DefaultResponse, Placeholder} THEN "\"" \o text \o "\"" ELSE "'" \o text \o "'"

StrJson(text) == "\"" \o text \o "\""

ContextLiteral(context) ==
    "[" \o Join([i \in DOMAIN context |->
                    "{'role': " \o StrLiteral(context[i].role)
                        \o ", 'content': " \o StrLiteral(context[i].content) \o "}"]) \o "]"

ContextJson(context) ==
    "[" \o Join([i \in DOMAIN context |->
                    "{\"role\": " \o StrJson(context[i].role)
                        \o ", \"content\": " \o StrJson(context[i].content) \o "}"]) \o "]"

KeyMapLiteral(api_keys) ==
    "{" \o Join([i \in DOMAIN api_keys |->
                    StrLiteral(api_keys[i][1]) \o ": " \o StrLiteral(api_keys[i][2])]) \o "}"

KeyMapJson(api_keys) ==
    "{" \o Join([i \in DOMAIN api_keys |->
                    StrJson(api_keys[i][1]) \o ": " \o StrJson(api_keys[i][2])]) \o "}"

\* Every context and key map the controller can hold, as a Python literal
\* and as the JSON text of it.
StructuredValues ==
    {[py |-> ContextLiteral(c), json |-> ContextJson(c)] : c \in Contexts}
        \cup {[py |-> KeyMapLiteral(m), json |-> KeyMapJson(m)] : m \in KeyMaps}

Serializable(value) == value # PySet

json_dumps(value) ==
    CASE value \in {PyList, PyTuple} -> JsonArray
      [] value \in {PyDict, PyIntKeyDict} -> JsonObject
      [] OTHER -> (CHOOSE v \in StructuredValues : v.py = value).json

json_loads(text) ==
    CASE text = JsonArray -> PyList
      [] text = JsonObject -> PyDict
      [] OTHER -> (CHOOSE v \in StructuredValues : v.json = text).py

PreferenceKeys == {"theme", "api_keys"}

\* Arguments the callers pass.
ConversationInputs == PyValues
ScrapingInputs ==
    {<<"https://x.test", PyDict>>, <<"https://x.test", PyIntKeyDict>>,
     <<"https://x.test", PySet>>}
AnalysisInputs == {<<"summary", PyList>>, <<"summary", PySet>>}
PreferenceInputs ==
    {<<"theme", PyList>>, <<"theme", PyDict>>, <<"api_keys", PyDict>>, <<"theme", PySet>>}
Limits == {-1, 1}
Defaults == {"fallback"}

\* time.strftime('%Y-%m-%d %H:%M:%S') at the successive seconds of a run, and
\* an earlier time that files written before the run carry.
Clock == <<"2026-11-03 10:00:00", "2026-11-03 10:00:01">>
Earlier == "2025-01-01 09:00:00"
strftime(t) == Clock[t]

(***************************************************************************)
(* The database as one value: what a connection reads, and the working     *)
(* copy a transaction changes until it commits.                            *)
(***************************************************************************)
Database ==
    [conversations |-> conversations,
     preferences |-> preferences,
     scraping_results |-> scraping_results,
     analysis_results |-> analysis_results,
     sqlite_sequence |-> sqlite_sequence]

Max(a, b) == IF a >= b THEN a ELSE b

MaxRowId(rows) ==
    IF rows = {} THEN 0 ELSE CHOOSE i \in {r.id : r \in rows} : \A r \in rows : r.id <= i

\* INTEGER PRIMARY KEY without AUTOINCREMENT: one more than the largest id present.
RowIdNoAutoincrement(rows, seq) == MaxRowId(rows) + 1

\* INTEGER PRIMARY KEY AUTOINCREMENT: one more than the largest id the table ever held.
AutoIncrement(rows, seq) == Max(seq, MaxRowId(rows)) + 1

\* INSERT OR REPLACE INTO conversations (id, ...) VALUES (1, ...): the one
\* row rewritten by every save.
InsertOrReplaceConversation(db, timestamp, data_json) ==
    [db EXCEPT !.conversations =
                   {r \in @ : r.id # 1} \cup {[id |-> 1, timestamp |-> timestamp,
                                                conversation_data |-> data_json]},
               !.sqlite_sequence.conversations = 1]

InsertConversation(db, timestamp, data_json) ==
    LET id == AutoIncrement(db.conversations, db.sqlite_sequence.conversations)
    IN  [db EXCEPT !.conversations =
                       @ \cup {[id |-> id, timestamp |-> timestamp,
                                conversation_data |-> data_json]},
                   !.sqlite_sequence.conversations = id]

InsertScrapingResult(db, timestamp, url, data_json) ==
    LET id == AutoIncrement(db.scraping_results, db.sqlite_sequence.scraping_results)
    IN  [db EXCEPT !.scraping_results =
                       @ \cup {[id |-> id, timestamp |-> timestamp, url |-> url,
                                data |-> data_json]},
                   !.sqlite_sequence.scraping_results = id]

\* The analysis insert writing its counter into the conversations entry of
\* sqlite_sequence as well.
InsertAnalysisResultSharedCounter(db, timestamp, description, data_json) ==
    LET id == AutoIncrement(db.analysis_results, db.sqlite_sequence.analysis_results)
    IN  [db EXCEPT !.analysis_results =
                       @ \cup {[id |-> id, timestamp |-> timestamp,
                                description |-> description, data |-> data_json]},
                   !.sqlite_sequence.analysis_results = id,
                   !.sqlite_sequence.conversations = Max(@, id)]

InsertAnalysisResult(db, timestamp, description, data_json) ==
    LET id == AutoIncrement(db.analysis_results, db.sqlite_sequence.analysis_results)
    IN  [db EXCEPT !.analysis_results =
                       @ \cup {[id |-> id, timestamp |-> timestamp,
                                description |-> description, data |-> data_json]},
                   !.sqlite_sequence.analysis_results = id]

\* preferences without PRIMARY KEY on key: a second row for the same key.
InsertPreferenceKeepingOld(db, key, value_json) ==
    [db EXCEPT !.preferences = @ \cup {[key |-> key, value |-> value_json]}]

\* INSERT OR IGNORE INTO preferences: the first value of a key stays.
InsertOrIgnorePreference(db, key, value_json) ==
    IF \E r \in db.preferences : r.key = key THEN db
    ELSE [db EXCEPT !.preferences = @ \cup {[key |-> key, value |-> value_json]}]

\* INSERT OR REPLACE INTO preferences: key is the primary key.
InsertOrReplacePreference(db, key, value_json) ==
    [db EXCEPT !.preferences =
                   {r \in @ : r.key # key} \cup {[key |-> key, value |-> value_json]}]

\* The three record tables deleted, the preferences kept.
DeleteRecords(db) ==
    [db EXCEPT !.conversations = {}, !.scraping_results = {}, !.analysis_results = {}]

\* The four DELETEs and DELETE FROM sqlite_sequence: the counters restart.
DeleteAllAndCounters(db) ==
    [db EXCEPT !.conversations = {}, !.preferences = {},
               !.scraping_results = {}, !.analysis_results = {},
               !.sqlite_sequence = [t \in AutoIdTables |-> 0]]

DeleteAll(db) ==
    [db EXCEPT !.conversations = {}, !.preferences = {},
               !.scraping_results = {}, !.analysis_results = {}]

\* DELETE FROM every table, whichever the operation names.
DeleteFromEveryTable(db, table) == DeleteAll(db)

\* DELETE FROM spares sqlite_sequence: the counters survive.
DeleteFrom(db, table) == [db EXCEPT ![table] = {}]

Inserted(db) ==
    db.sqlite_sequence.conversations + db.sqlite_sequence.scraping_results
        + db.sqlite_sequence.analysis_results

(***************************************************************************)
(* Rows in id order.                                                       *)
(***************************************************************************)
RECURSIVE OrderByIdAsc(_)
OrderByIdAsc(rows) ==
    IF rows = {} THEN <<>>
    ELSE LET low == CHOOSE r \in rows : \A q \in rows : q.id >= r.id
         IN  <<low>> \o OrderByIdAsc(rows \ {low})

\* The load query without its ORDER BY id DESC: oldest first.
OrderByOmitted(rows) == OrderByIdAsc(rows)

RECURSIVE OrderByIdDesc(_)
OrderByIdDesc(rows) ==
    IF rows = {} THEN <<>>
    ELSE LET top == CHOOSE r \in rows : \A q \in rows : q.id <= r.id
         IN  <<top>> \o OrderByIdDesc(rows \ {top})

\* The export query with the load queries' ORDER BY id DESC: newest first.
TableScanNewestFirst(rows) == OrderByIdDesc(rows)

\* A table scan without ORDER BY walks the rowid b-tree: ascending id.
TableScan(rows) == OrderByIdAsc(rows)

\* LIMIT n: a negative n is no limit.
Limit(rowseq, limit) ==
    IF limit < 0 \/ limit >= Len(rowseq) THEN rowseq ELSE SubSeq(rowseq, 1, limit)

(***************************************************************************)
(* One call: the connection it opens, the statements it runs and the       *)
(* try / except around its body.                                           *)
(***************************************************************************)
\* What the environment does to a call: nothing, the database file cannot be
\* opened ("db"), or the export / import file cannot be opened ("fs").
DbFaults == {"none", "db"}
FileFaults == {"none", "db", "fs"}

ExceptionSubclasses ==
    {"OperationalError", "TypeError", "KeyError", "AttributeError",
     "JSONDecodeError", "OSError"}

\* except sqlite3.Error: what a handler for database errors alone would let through.
PropagatedPastSqliteHandler(exc) == IF exc \in {"none", "OperationalError"} THEN "none" ELSE exc

\* except Exception as e: print, return the failure value.
Propagated(exc) == IF exc \in ExceptionSubclasses THEN "none" ELSE exc

\* sqlite3.connect(self.db_path); cursor = conn.cursor()
Connect(fault) ==
    IF fault = "db"
    THEN [exc |-> "OperationalError", db |-> Database, wrote |-> FALSE, opened |-> FALSE]
    ELSE [exc |-> "none", db |-> Database, wrote |-> FALSE, opened |-> TRUE]

Raise(txn, exc) == IF txn.exc = "none" THEN [txn EXCEPT !.exc = exc] ELSE txn

\* cursor.execute of an INSERT or DELETE: sqlite3 begins a transaction, which
\* needs the write lock; a leaked transaction of an earlier call still holds it
\* ("database is locked").
Execute(txn, after) ==
    IF txn.exc # "none" THEN txn
    ELSE IF leaked_txn /\ ~txn.wrote THEN [txn EXCEPT !.exc = "OperationalError"]
    ELSE [txn EXCEPT !.db = after, !.wrote = TRUE]

\* Every statement takes effect at once (isolation_level=None).
VisibleInAutocommit(txn) == txn.db

\* conn.close() without conn.commit(): nothing a call writes is ever committed.
VisibleWithoutCommit(txn) == Database

\* conn.commit() is the last statement before conn.close(): a call that raises
\* before it commits nothing, and its transaction is rolled back when the
\* connection is finalized.
Visible(txn) == IF txn.exc = "none" THEN txn.db ELSE Database

\* The committed tables, the connection and the history after the call.
Close(txn) ==
    LET db == Visible(txn)
    IN  /\ conversations' = db.conversations
        /\ preferences' = db.preferences
        /\ scraping_results' = db.scraping_results
        /\ analysis_results' = db.analysis_results
        /\ sqlite_sequence' = db.sqlite_sequence
        /\ leaked_txn' = (leaked_txn \/ (txn.exc # "none" /\ txn.wrote))
        /\ issued' = [t \in AutoIdTables |-> issued[t] \cup {r.id : r \in db[t]}]

\* The caller (the single-threaded application) makes one call at a time and
\* takes its result before the next.
Idle ==
    [op |-> "idle", arg |-> <<>>, fault |-> "none", before |-> <<>>, exc |-> "none",
     raised |-> "none", conn |-> "none", ret |-> TRUE]

\* conn.close() is a statement of the try body, after conn.commit(): a call
\* that raises after sqlite3.connect returns with its connection open.
ConnectionAfter(txn) ==
    IF ~txn.opened THEN "none" ELSE IF txn.exc = "none" THEN "closed" ELSE "open"

Return(op, arg, fault, exc, conn, ok, failed) ==
    last' = [op |-> op, arg |-> arg, fault |-> fault, before |-> Database, exc |-> exc,
             raised |-> Propagated(exc), conn |-> conn,
             ret |-> IF exc = "none" THEN ok ELSE failed]

NewRows(txn, table) == Visible(txn)[table] \ Database[table]

(***************************************************************************)
(* Append operations.                                                      *)
(***************************************************************************)
SaveConversationTry(conversation_data, fault) ==
    LET conn == Connect(fault)
    IN  IF ~Serializable(conversation_data) THEN Raise(conn, "TypeError")
        ELSE Execute(conn, InsertConversation(conn.db, strftime(now), json_dumps(conversation_data)))

save_conversation(conversation_data, fault) ==
    LET txn == SaveConversationTry(conversation_data, fault)
    IN  /\ last = Idle
        /\ Inserted(txn.db) <= MaxInserts
        /\ Close(txn)
        /\ Return("save_conversation", <<conversation_data>>, fault, txn.exc, ConnectionAfter(txn), TRUE, FALSE)
        /\ appended' = [appended EXCEPT !.conversations =
                            @ \o OrderByIdAsc(NewRows(txn, "conversations"))]
        /\ UNCHANGED <<file, now>>

SaveScrapingResultTry(url, data, fault) ==
    LET conn == Connect(fault)
    IN  IF ~Serializable(data) THEN Raise(conn, "TypeError")
        ELSE Execute(conn, InsertScrapingResult(conn.db, strftime(now), url, json_dumps(data)))

save_scraping_result(url, data, fault) ==
    LET txn == SaveScrapingResultTry(url, data, fault)
    IN  /\ last = Idle
        /\ Inserted(txn.db) <= MaxInserts
        /\ Close(txn)
        /\ Return("save_scraping_result", <<url, data>>, fault, txn.exc, ConnectionAfter(txn), TRUE, FALSE)
        /\ appended' = [appended EXCEPT !.scraping_results =
                            @ \o OrderByIdAsc(NewRows(txn, "scraping_results"))]
        /\ UNCHANGED <<file, now>>

SaveAnalysisResultTry(description, data, fault) ==
    LET conn == Connect(fault)
    IN  IF ~Serializable(data) THEN Raise(conn, "TypeError")
        ELSE Execute(conn, InsertAnalysisResult(conn.db, strftime(now), description, json_dumps(data)))

save_analysis_result(description, data, fault) ==
    LET txn == SaveAnalysisResultTry(description, data, fault)
    IN  /\ last = Idle
        /\ Inserted(txn.db) <= MaxInserts
        /\ Close(txn)
        /\ Return("save_analysis_result", <<description, data>>, fault, txn.exc, ConnectionAfter(txn), TRUE, FALSE)
        /\ appended' = [appended EXCEPT !.analysis_results =
                            @ \o OrderByIdAsc(NewRows(txn, "analysis_results"))]
        /\ UNCHANGED <<file, now>>

(***************************************************************************)
(* Preferences.                                                            *)
(***************************************************************************)
SavePreferenceTry(key, value, fault) ==
    LET conn == Connect(fault)
    IN  IF ~Serializable(value) THEN Raise(conn, "TypeError")
        ELSE Execute(conn, InsertOrReplacePreference(conn.db, key, json_dumps(value)))

save_preference(key, value, fault) ==
    LET txn == SavePreferenceTry(key, value, fault)
    IN  /\ last = Idle
        /\ Close(txn)
        /\ Return("save_preference", <<key, value>>, fault, txn.exc, ConnectionAfter(txn), TRUE, FALSE)
        /\ UNCHANGED <<file, now, appended>>

\* return json.loads(result[0]) if result else None: the default dropped.
LoadPreferenceValueOrNone(key, default) ==
    LET result == {r \in preferences : r.key = key}
    IN  IF result # {} THEN json_loads((CHOOSE r \in result : TRUE).value) ELSE "None"

\* SELECT value FROM preferences WHERE key = ?; fetchone()
LoadPreferenceValue(key, default) ==
    LET result == {r \in preferences : r.key = key}
    IN  IF result # {} THEN json_loads((CHOOSE r \in result : TRUE).value) ELSE default

load_preference(key, default, fault) ==
    LET conn == Connect(fault)
    IN  /\ last = Idle
        /\ Return("load_preference", <<key, default>>, fault, conn.exc, ConnectionAfter(conn),
                  LoadPreferenceValue(key, default), default)
        /\ UNCHANGED <<conversations, preferences, scraping_results, analysis_results,
                       sqlite_sequence, leaked_txn, file, now, appended, issued>>

(***************************************************************************)
(* Load operations: ORDER BY id DESC LIMIT ?                               *)
(***************************************************************************)
ConversationEntry(row) ==
    [id |-> row.id, timestamp |-> row.timestamp, data |-> json_loads(row.conversation_data)]

ScrapingEntry(row) ==
    [id |-> row.id, timestamp |-> row.timestamp, url |-> row.url,
     data |-> json_loads(row.data)]

AnalysisEntry(row) ==
    [id |-> row.id, timestamp |-> row.timestamp, description |-> row.description,
     data |-> json_loads(row.data)]

LoadConversationRows(limit) ==
    LET rows == Limit(OrderByIdDesc(conversations), limit)
    IN  [i \in 1..Len(rows) |-> ConversationEntry(rows[i])]

LoadScrapingRows(limit) ==
    LET rows == Limit(OrderByIdDesc(scraping_results), limit)
    IN  [i \in 1..Len(rows) |-> ScrapingEntry(rows[i])]

LoadAnalysisRows(limit) ==
    LET rows == Limit(OrderByIdDesc(analysis_results), limit)
    IN  [i \in 1..Len(rows) |-> AnalysisEntry(rows[i])]

ReadOnly ==
    UNCHANGED <<conversations, preferences, scraping_results, analysis_results,
                sqlite_sequence, leaked_txn, file, now, appended, issued>>

load_conversations(limit, fault) ==
    /\ last = Idle
    /\ Return("load_conversations", <<limit>>, fault, Connect(fault).exc, ConnectionAfter(Connect(fault)),
              LoadConversationRows(limit), <<>>)
    /\ ReadOnly

load_scraping_results(limit, fault) ==
    /\ last = Idle
    /\ Return("load_scraping_results", <<limit>>, fault, Connect(fault).exc, ConnectionAfter(Connect(fault)),
              LoadScrapingRows(limit), <<>>)
    /\ ReadOnly

load_analysis_results(limit, fault) ==
    /\ last = Idle
    /\ Return("load_analysis_results", <<limit>>, fault, Connect(fault).exc, ConnectionAfter(Connect(fault)),
              LoadAnalysisRows(limit), <<>>)
    /\ ReadOnly

(***************************************************************************)
(* Clear operations.                                                       *)
(***************************************************************************)
NoneAppended == [t \in AutoIdTables |-> <<>>]

clear_all_data(fault) ==
    LET conn == Connect(fault)
        txn == Execute(conn, DeleteAll(conn.db))
    IN  /\ last = Idle
        /\ Close(txn)
        /\ Return("clear_all_data", <<>>, fault, txn.exc, ConnectionAfter(txn), TRUE, FALSE)
        /\ appended' = NoneAppended
        /\ UNCHANGED <<file, now>>

clear_conversation_data(fault) ==
    LET conn == Connect(fault)
        txn == Execute(conn, DeleteFrom(conn.db, "conversations"))
    IN  /\ last = Idle
        /\ Close(txn)
        /\ Return("clear_conversation_data", <<>>, fault, txn.exc, ConnectionAfter(txn), TRUE, FALSE)
        /\ appended' = [appended EXCEPT !.conversations = <<>>]
        /\ UNCHANGED <<file, now>>

clear_scraping_data(fault) ==
    LET conn == Connect(fault)
        txn == Execute(conn, DeleteFrom(conn.db, "scraping_results"))
    IN  /\ last = Idle
        /\ Close(txn)
        /\ Return("clear_scraping_data", <<>>, fault, txn.exc, ConnectionAfter(txn), TRUE, FALSE)
        /\ appended' = [appended EXCEPT !.scraping_results = <<>>]
        /\ UNCHANGED <<file, now>>

clear_analysis_data(fault) ==
    LET conn == Connect(fault)
        txn == Execute(conn, DeleteFrom(conn.db, "analysis_results"))
    IN  /\ last = Idle
        /\ Close(txn)
        /\ Return("clear_analysis_data", <<>>, fault, txn.exc, ConnectionAfter(txn), TRUE, FALSE)
        /\ appended' = [appended EXCEPT !.analysis_results = <<>>]
        /\ UNCHANGED <<file, now>>

(***************************************************************************)
(* Files.  A file is absent, not JSON ("corrupt"), or a JSON document:     *)
(* an object ("dict") with some of the sections, or an array ("list").     *)
(* A section is an array or an object itself; payloads are JSON text.      *)
(***************************************************************************)
ExportPath == "export.json"

NoFile == [type |-> "absent", body |-> <<>>]
JsonList(items) == [type |-> "list", items |-> items]
JsonDict(items) == [type |-> "dict", items |-> items]
JsonDocument(body) == [type |-> "dict", body |-> body]

\* json.dump(json.loads(text)): what export writes for a stored payload.
Rewritten(text) == json_dumps(json_loads(text))

ExportedConversations ==
    LET rows == TableScan(conversations)
    IN  JsonList([i \in 1..Len(rows) |->
            [id |-> rows[i].id, timestamp |-> rows[i].timestamp,
             data |-> Rewritten(rows[i].conversation_data)]])

ExportedPreferences ==
    JsonDict([k \in {r.key : r \in preferences} |->
            Rewritten((CHOOSE r \in preferences : r.key = k).value)])

ExportedScraping ==
    LET rows == TableScan(scraping_results)
    IN  JsonList([i \in 1..Len(rows) |->
            [id |-> rows[i].id, timestamp |-> rows[i].timestamp, url |-> rows[i].url,
             data |-> Rewritten(rows[i].data)]])

ExportedAnalysis ==
    LET rows == TableScan(analysis_results)
    IN  JsonList([i \in 1..Len(rows) |->
            [id |-> rows[i].id, timestamp |-> rows[i].timestamp,
             description |-> rows[i].description, data |-> Rewritten(rows[i].data)]])

ExportData ==
    JsonDocument([conversations |-> ExportedConversations,
                  preferences |-> ExportedPreferences,
                  scraping_results |-> ExportedScraping,
                  analysis_results |-> ExportedAnalysis,
                  export_timestamp |-> strftime(now)])

ExportTry(fault) ==
    IF fault = "db" THEN "OperationalError"
    ELSE IF fault = "fs" THEN "OSError"
    ELSE "none"

export_all_data(fault) ==
    LET exc == ExportTry(fault)
    IN  /\ last = Idle
        /\ file' = IF exc = "none" THEN ExportData ELSE file
        /\ Return("export_all_data", <<ExportPath>>, fault, exc, IF fault = "db" THEN "none" ELSE "closed", TRUE, FALSE)
        /\ UNCHANGED <<conversations, preferences, scraping_results, analysis_results,
                       sqlite_sequence, leaked_txn, now, appended, issued>>

(***************************************************************************)
(* export_all_data statement by statement, as a second process (another    *)
(* session of the application on the same data directory) runs it while    *)
(* the first one writes.  sqlite3 opens no transaction for a SELECT: each   *)
(* of the four reads the rows committed at the moment it executes.         *)
(* exporting.seen is history: the store states from the connect to the     *)
(* last SELECT.                                                            *)
(***************************************************************************)
NotExporting ==
    [pc |-> "idle", conversations |-> JsonList(<<>>), preferences |-> JsonDict(<<>>),
     scraping_results |-> JsonList(<<>>), analysis_results |-> JsonList(<<>>), seen |-> {}]

\* The statement after each SELECT.
Following ==
    [conversations |-> "preferences", preferences |-> "scraping_results",
     scraping_results |-> "analysis_results", analysis_results |-> "dump"]

\* cursor.execute('SELECT ... FROM <table>'); cursor.fetchall()
Select(table) ==
    CASE table = "conversations" -> ExportedConversations
      [] table = "preferences" -> ExportedPreferences
      [] table = "scraping_results" -> ExportedScraping
      [] table = "analysis_results" -> ExportedAnalysis

ExportConnect ==
    /\ exporting.pc = "idle"
    /\ exporting' = [exporting EXCEPT !.pc = "conversations", !.seen = {Database}]
    /\ UNCHANGED <<conversations, preferences, scraping_results, analysis_results,
                   sqlite_sequence, leaked_txn, file, now, last, appended, issued, memory,
                   time, recorded>>

ExportSelect(table) ==
    /\ exporting.pc = table
    /\ exporting' = [exporting EXCEPT ![table] = Select(table), !.pc = Following[table]]
    /\ UNCHANGED <<conversations, preferences, scraping_results, analysis_results,
                   sqlite_sequence, leaked_txn, file, now, last, appended, issued, memory,
                   time, recorded>>

\* conn.close(); export_data = {...}; json.dump(export_data, f, indent=2)
ExportDump ==
    /\ exporting.pc = "dump"
    /\ file' = JsonDocument([conversations |-> exporting.conversations,
                             preferences |-> exporting.preferences,
                             scraping_results |-> exporting.scraping_results,
                             analysis_results |-> exporting.analysis_results,
                             export_timestamp |-> strftime(now)])
    /\ exporting' = [exporting EXCEPT !.pc = "done"]
    /\ UNCHANGED <<conversations, preferences, scraping_results, analysis_results,
                   sqlite_sequence, leaked_txn, now, last, appended, issued, memory,
                   time, recorded>>

\* What the first process commits while the second one exports.
Observed ==
    IF exporting.pc \in DOMAIN Following
    THEN [exporting EXCEPT !.seen = @ \cup {Database'}]
    ELSE exporting

(***************************************************************************)
(* Files a user may hand to import_data besides the export file.           *)
(***************************************************************************)
\* Conv1 was written before the run; the other records carry the time of the
\* run's first second, as a file exported a moment ago does.
Conv1 == [id |-> 1, timestamp |-> Earlier, data |-> JsonArray]
Conv2 == [id |-> 2, timestamp |-> Clock[1], data |-> JsonObject]
Scrape1 == [id |-> 1, timestamp |-> Clock[1], url |-> "https://x.test", data |-> JsonObject]
Analysis1 == [id |-> 1, timestamp |-> Clock[1], description |-> "summary", data |-> JsonArray]

ExternalFiles ==
    [empty |-> JsonDocument(<<>>),
     conv |-> JsonDocument([conversations |-> JsonList(<<Conv1>>)]),
     two |-> JsonDocument([conversations |-> JsonList(<<Conv1, Conv2>>)]),
     prefs |-> JsonDocument([preferences |-> JsonDict([theme |-> JsonObject])]),
     full |-> JsonDocument([conversations |-> JsonList(<<Conv2>>),
                            preferences |-> JsonDict([theme |-> JsonObject,
                                                      api_keys |-> JsonObject]),
                            scraping_results |-> JsonList(<<Scrape1>>),
                            analysis_results |-> JsonList(<<>>)]),
     nodata |-> JsonDocument([conversations |-> JsonList(<<Conv1, [timestamp |-> Earlier]>>),
                              preferences |-> JsonDict([theme |-> JsonArray])]),
     notimestamp |-> JsonDocument([conversations |-> JsonList(<<[data |-> JsonArray]>>)]),
     nourl |-> JsonDocument([preferences |-> JsonDict([api_keys |-> JsonArray]),
                             scraping_results |-> JsonList(<<[timestamp |-> Earlier,
                                                              data |-> JsonArray]>>)]),
     analysis |-> JsonDocument([analysis_results |-> JsonList(<<Analysis1>>)]),
     nodescription |-> JsonDocument([scraping_results |-> JsonList(<<Scrape1>>),
                                     analysis_results |-> JsonList(<<[timestamp |-> Earlier,
                                                                      data |-> JsonArray]>>)]),
     shape |-> JsonDocument([conversations |-> JsonList(<<Conv1>>),
                             preferences |-> JsonList(<<>>)]),
     list |-> [type |-> "list", body |-> <<>>],
     corrupt |-> [type |-> "corrupt", body |-> <<>>],
     missing |-> NoFile]

Paths == {ExportPath} \cup DOMAIN ExternalFiles

FileContent(file_path) == IF file_path = ExportPath THEN file ELSE ExternalFiles[file_path]

(***************************************************************************)
(* import_data                                                             *)
(***************************************************************************)
\* import_data[section]: a missing section raises.
Subscript(body, section, default) ==
    IF section \in DOMAIN body THEN body[section] ELSE [type |-> "missing", items |-> <<>>]

\* import_data.get(section, default)
Get(body, section, default) == IF section \in DOMAIN body THEN body[section] ELSE default

\* for conv in reversed(import_data.get('conversations', [])): the last
\* record of the document inserted first.
RECURSIVE ImportConversationsReversed(_, _, _)
ImportConversationsReversed(txn, section, i) ==
    IF txn.exc # "none" \/ i > Len(section.items) THEN txn
    ELSE IF section.type # "list" THEN Raise(txn, "TypeError")
    ELSE LET conv == section.items[Len(section.items) + 1 - i]
         IN  IF {"data", "timestamp"} \subseteq DOMAIN conv
             THEN ImportConversationsReversed(
                      Execute(txn, InsertConversation(txn.db, conv.timestamp,
                                                      json_dumps(json_loads(conv.data)))),
                      section, i + 1)
             ELSE Raise(txn, "KeyError")

RECURSIVE ImportConversations(_, _, _)
ImportConversations(txn, section, i) ==
    IF txn.exc # "none" \/ i > Len(section.items) THEN txn
    ELSE IF section.type # "list" THEN Raise(txn, "TypeError")
    ELSE LET conv == section.items[i]
         IN  IF {"data", "timestamp"} \subseteq DOMAIN conv
             THEN ImportConversations(
                      Execute(txn, InsertConversation(txn.db, conv.timestamp,
                                                      json_dumps(json_loads(conv.data)))),
                      section, i + 1)
             ELSE Raise(txn, "KeyError")

RECURSIVE ImportPreferences(_, _, _)
ImportPreferences(txn, items, keys) ==
    IF txn.exc # "none" \/ keys = {} THEN txn
    ELSE LET key == CHOOSE k \in keys : TRUE
         IN  ImportPreferences(
                 Execute(txn, InsertOrReplacePreference(txn.db, key,
                                                        json_dumps(json_loads(items[key])))),
                 items, keys \ {key})

RECURSIVE ImportScrapingResults(_, _, _)
ImportScrapingResults(txn, section, i) ==
    IF txn.exc # "none" \/ i > Len(section.items) THEN txn
    ELSE IF section.type # "list" THEN Raise(txn, "TypeError")
    ELSE LET result == section.items[i]
         IN  IF {"data", "timestamp", "url"} \subseteq DOMAIN result
             THEN ImportScrapingResults(
                      Execute(txn, InsertScrapingResult(txn.db, result.timestamp, result.url,
                                                        json_dumps(json_loads(result.data)))),
                      section, i + 1)
             ELSE Raise(txn, "KeyError")

RECURSIVE ImportAnalysisResults(_, _, _)
ImportAnalysisResults(txn, section, i) ==
    IF txn.exc # "none" \/ i > Len(section.items) THEN txn
    ELSE IF section.type # "list" THEN Raise(txn, "TypeError")
    ELSE LET result == section.items[i]
         IN  IF {"data", "timestamp", "description"} \subseteq DOMAIN result
             THEN ImportAnalysisResults(
                      Execute(txn, InsertAnalysisResult(txn.db, result.timestamp,
                                                        result.description,
                                                        json_dumps(json_loads(result.data)))),
                      section, i + 1)
             ELSE Raise(txn, "KeyError")

\* with open(file_path, 'r') as f: import_data = json.load(f)
ReadFile(file_path, fault) ==
    LET content == FileContent(file_path)
    IN  IF fault = "fs" \/ content.type = "absent" THEN "OSError"
        ELSE IF content.type = "corrupt" THEN "JSONDecodeError"
        ELSE "none"

ImportSections(txn, content) ==
    IF txn.exc # "none" THEN txn
    ELSE IF content.type # "dict" THEN Raise(txn, "AttributeError")
    ELSE LET convs == ImportConversations(
                          txn, Get(content.body, "conversations", JsonList(<<>>)), 1)
             section == Get(content.body, "preferences", JsonDict(<<>>))
             prefs == IF convs.exc # "none" THEN convs
                      ELSE IF section.type # "dict" THEN Raise(convs, "AttributeError")
                      ELSE ImportPreferences(convs, section.items, DOMAIN section.items)
             scraping == ImportScrapingResults(
                             prefs, Get(content.body, "scraping_results", JsonList(<<>>)), 1)
         IN  ImportAnalysisResults(
                 scraping, Get(content.body, "analysis_results", JsonList(<<>>)), 1)

\* The four DELETEs run whatever replace_existing says.
ClearedAlways(conn, replace_existing) == Execute(conn, DeleteAll(conn.db))

\* if replace_existing: DELETE FROM each of the four tables
Cleared(conn, replace_existing) ==
    IF replace_existing THEN Execute(conn, DeleteAll(conn.db)) ELSE conn

ImportTry(file_path, replace_existing, fault) ==
    LET read == ReadFile(file_path, fault)
        conn == IF read # "none"
                THEN [exc |-> read, db |-> Database, wrote |-> FALSE, opened |-> FALSE]
                ELSE Connect(fault)
    IN  ImportSections(Cleared(conn, replace_existing), FileContent(file_path))

import_data(file_path, replace_existing, fault) ==
    LET txn == ImportTry(file_path, replace_existing, fault)
    IN  /\ last = Idle
        /\ Inserted(txn.db) <= MaxInserts
        /\ Close(txn)
        /\ Return("import_data", <<file_path, replace_existing>>, fault, txn.exc, ConnectionAfter(txn), TRUE, FALSE)
        /\ appended' = IF txn.exc = "none" THEN NoneAppended ELSE appended
        /\ UNCHANGED <<file, now>>

(***************************************************************************)
(* ApplicationController.clear_memory: the store's clear of the named      *)
(* memory type, then the in-memory state of the matching modules when the  *)
(* store reported success.  last records the store call it made, or the    *)
(* controller call itself when it made none.                               *)
(***************************************************************************)
MemoryTypes == {"all", "conversations", "preferences", "scraping", "analysis"}

\* The modules as the controller's constructor leaves them under the default
\* configuration: NLPModule.context and max_context_length,
\* WebScrapingModule.history, DataAnalysisModule.analysis_history,
\* APIIntegrationManager.request_history and api_keys (a dict, in insertion
\* order: a sequence of <<provider, key>>).
NoMemory ==
    [context |-> <<>>, history |-> <<>>, analysis_history |-> <<>>, request_history |-> <<>>,
     api_keys |-> <<>>, max_context_length |-> 10]

\* The modules cleared whatever the store returned.
ClearedWhatever(success, cleared) == cleared

\* if success: the matching modules cleared
IfSuccess(success, cleared) == IF success THEN cleared ELSE memory

clear_memory(memory_type, fault) ==
    CASE memory_type = "all" ->
            /\ clear_all_data(fault)
            /\ memory' = IfSuccess(last'.ret,
                                   [memory EXCEPT !.context = <<>>, !.history = <<>>,
                                                  !.analysis_history = <<>>,
                                                  !.request_history = <<>>])
            /\ recorded' = IF last'.ret THEN <<>> ELSE recorded
            /\ UNCHANGED time
      [] memory_type = "conversations" ->
            /\ clear_conversation_data(fault)
            /\ memory' = IfSuccess(last'.ret, [memory EXCEPT !.context = <<>>])
            /\ UNCHANGED <<time, recorded>>
      [] memory_type = "scraping" ->
            /\ clear_scraping_data(fault)
            /\ memory' = IfSuccess(last'.ret, [memory EXCEPT !.history = <<>>])
            /\ UNCHANGED <<time, recorded>>
      [] memory_type = "analysis" ->
            /\ clear_analysis_data(fault)
            /\ memory' = IfSuccess(last'.ret, [memory EXCEPT !.analysis_history = <<>>])
            /\ UNCHANGED <<time, recorded>>
      [] OTHER ->
            /\ last = Idle
            /\ fault = "none"
            /\ Return("clear_memory", <<memory_type>>, fault, "none", "none", FALSE, FALSE)
            /\ UNCHANGED <<conversations, preferences, scraping_results, analysis_results,
                           sqlite_sequence, leaked_txn, file, now, appended, issued, memory,
                           time, recorded>>

(***************************************************************************)
(* The caller taking a result, and the garbage collector that finalizes a  *)
(* connection a failed call left open (its transaction is rolled back).    *)
(***************************************************************************)
take_result ==
    /\ last # Idle
    /\ last' = Idle
    /\ UNCHANGED <<conversations, preferences, scraping_results, analysis_results,
                   sqlite_sequence, leaked_txn, file, now, appended, issued, memory,
                   exporting, time, recorded>>

gc_collect ==
    /\ last = Idle
    /\ leaked_txn
    /\ leaked_txn' = FALSE
    /\ UNCHANGED <<conversations, preferences, scraping_results, analysis_results,
                   sqlite_sequence, file, now, last, appended, issued, memory,
                   exporting, time, recorded>>

(***************************************************************************)
(* Construction of a SessionManager on the data directory of the store:    *)
(* os.makedirs(exist_ok=True), then _init_database.  The tables exist, the *)
(* first construction created them (Init), so CREATE TABLE IF NOT EXISTS   *)
(* writes nothing and does not wait for the write lock.  The constructor   *)
(* has no exception handler and returns None.                              *)
(***************************************************************************)
TablesCreated == {"conversations", "preferences", "scraping_results", "analysis_results"}

\* DROP TABLE IF EXISTS, then CREATE TABLE: the table emptied, its counter dropped.
DropAndCreateTable(db, table) ==
    [db EXCEPT ![table] = {},
               !.sqlite_sequence = [t \in AutoIdTables |-> IF t = table THEN 0 ELSE @[t]]]

CreateTableIfNotExists(db, table) ==
    IF table \in TablesCreated THEN db ELSE [db EXCEPT ![table] = {}]

_init_database(conn) ==
    LET c1 == CreateTableIfNotExists(conn.db, "conversations")
        c2 == CreateTableIfNotExists(c1, "preferences")
        c3 == CreateTableIfNotExists(c2, "scraping_results")
        c4 == CreateTableIfNotExists(c3, "analysis_results")
    IN  [conn EXCEPT !.db = c4, !.wrote = c4 # conn.db]

__init__ ==
    LET txn == _init_database(Connect("none"))
    IN  /\ last = Idle
        /\ Close(txn)
        /\ last' = [op |-> "__init__", arg |-> <<>>, fault |-> "none", before |-> Database,
                    exc |-> txn.exc, raised |-> txn.exc, conn |-> ConnectionAfter(txn),
                    ret |-> "None"]
        /\ UNCHANGED <<file, now, appended>>

Init ==
    /\ conversations = {}
    /\ preferences = {}
    /\ scraping_results = {}
    /\ analysis_results = {}
    /\ sqlite_sequence = [t \in AutoIdTables |-> 0]
    /\ leaked_txn = FALSE
    /\ file = NoFile
    /\ now = 1
    /\ last = Idle
    /\ appended = NoneAppended
    /\ issued = [t \in AutoIdTables |-> {}]
    /\ memory = NoMemory
    /\ exporting = NotExporting
    /\ time = 0
    /\ recorded = <<>>

(***************************************************************************)
(* The session: any operation with any of the callers' inputs under any    *)
(* fault.  A run appends, clears and imports until it exports; after the   *)
(* export it reads, clears and imports only (Exported), which keeps the    *)
(* export file and the store from multiplying.                             *)
(***************************************************************************)
Exported == file.type # "absent"

Next ==
    \/ \E v \in ConversationInputs, f \in DbFaults :
          ~Exported /\ save_conversation(v, f) /\ UNCHANGED <<memory, exporting, time, recorded>>
    \/ \E a \in ScrapingInputs, f \in DbFaults :
          ~Exported /\ save_scraping_result(a[1], a[2], f)
              /\ UNCHANGED <<memory, exporting, time, recorded>>
    \/ \E a \in AnalysisInputs, f \in DbFaults :
          ~Exported /\ save_analysis_result(a[1], a[2], f)
              /\ UNCHANGED <<memory, exporting, time, recorded>>
    \/ \E a \in PreferenceInputs, f \in DbFaults :
          ~Exported /\ save_preference(a[1], a[2], f)
              /\ UNCHANGED <<memory, exporting, time, recorded>>
    \/ \E k \in PreferenceKeys, d \in Defaults, f \in DbFaults :
          load_preference(k, d, f) /\ UNCHANGED <<memory, exporting, time, recorded>>
    \/ \E n \in Limits, f \in DbFaults :
          load_conversations(n, f) /\ UNCHANGED <<memory, exporting, time, recorded>>
    \/ \E n \in Limits, f \in DbFaults :
          load_scraping_results(n, f) /\ UNCHANGED <<memory, exporting, time, recorded>>
    \/ \E n \in Limits, f \in DbFaults :
          load_analysis_results(n, f) /\ UNCHANGED <<memory, exporting, time, recorded>>
    \/ \E m \in MemoryTypes, f \in DbFaults :
          /\ Exported => m \in {"all", "preferences"}
          /\ clear_memory(m, f)
          /\ UNCHANGED exporting
    \/ \E f \in FileFaults : export_all_data(f) /\ UNCHANGED <<memory, exporting, time, recorded>>
    \/ \E p \in Paths, r \in BOOLEAN, f \in FileFaults :
          /\ f = "none" \/ p \in {"conv", ExportPath}
          /\ Exported => p = ExportPath
          /\ import_data(p, r, f)
          /\ UNCHANGED <<memory, exporting, time, recorded>>
    \/ __init__ /\ UNCHANGED <<memory, exporting, time, recorded>>
    \/ gc_collect
    \/ take_result

Spec == Init /\ [][Next]_vars

(***************************************************************************)
(* Two processes on one database: the first saves, clears and imports      *)
(* (each call commits as a whole), the second exports once.  The first     *)
(* makes at most MaxConcurrentWrites calls between the export's connect    *)
(* and its last SELECT.                                                    *)
(***************************************************************************)
Writing ==
    /\ exporting.pc # "done"
    /\ exporting.pc \in DOMAIN Following => Cardinality(exporting.seen) <= MaxConcurrentWrites

ConcurrentNext ==
    \/ ExportConnect
    \/ \E t \in TablesCreated : ExportSelect(t)
    \/ ExportDump
    \/ /\ Writing
       /\ save_conversation(PyList, "none")
       /\ exporting' = Observed
       /\ UNCHANGED <<memory, time, recorded>>
    \/ /\ Writing
       /\ save_scraping_result("https://x.test", PyDict, "none")
       /\ exporting' = Observed
       /\ UNCHANGED <<memory, time, recorded>>
    \/ /\ Writing
       /\ save_preference("theme", PyList, "none")
       /\ exporting' = Observed
       /\ UNCHANGED <<memory, time, recorded>>
    \/ \E m \in {"all", "conversations"} :
          /\ Writing
          /\ clear_memory(m, "none")
          /\ exporting' = Observed
    \/ \E r \in BOOLEAN :
          /\ Writing
          /\ import_data("full", r, "none")
          /\ exporting' = Observed
          /\ UNCHANGED <<memory, time, recorded>>
    \/ take_result

ConcurrentSpec == Init /\ [][ConcurrentNext]_vars

(***************************************************************************)
(* What a caller can observe of the store and of a document: the records   *)
(* of each category in insertion order, without their ids, with payloads   *)
(* as the Python values the load operations return.                        *)
(***************************************************************************)
Succeeded(op) == last.op = op /\ last.exc = "none"

ConversationsOf(db) ==
    LET rows == OrderByIdAsc(db.conversations)
    IN  [i \in 1..Len(rows) |->
            [timestamp |-> rows[i].timestamp, data |-> json_loads(rows[i].conversation_data)]]

ScrapingResultsOf(db) ==
    LET rows == OrderByIdAsc(db.scraping_results)
    IN  [i \in 1..Len(rows) |->
            [timestamp |-> rows[i].timestamp, url |-> rows[i].url,
             data |-> json_loads(rows[i].data)]]

AnalysisResultsOf(db) ==
    LET rows == OrderByIdAsc(db.analysis_results)
    IN  [i \in 1..Len(rows) |->
            [timestamp |-> rows[i].timestamp, description |-> rows[i].description,
             data |-> json_loads(rows[i].data)]]

PreferencesOf(db) ==
    [k \in {r.key : r \in db.preferences} |->
        {json_loads(r.value) : r \in {q \in db.preferences : q.key = k}}]

ContentOf(db) ==
    [conversations |-> ConversationsOf(db), preferences |-> PreferencesOf(db),
     scraping_results |-> ScrapingResultsOf(db), analysis_results |-> AnalysisResultsOf(db)]

\* A section of a document; one the document does not have is empty.
Section(doc, name) ==
    IF name \in DOMAIN doc.body THEN doc.body[name]
    ELSE IF name = "preferences" THEN JsonDict(<<>>) ELSE JsonList(<<>>)

ConversationsIn(doc) ==
    LET items == Section(doc, "conversations").items
    IN  [i \in 1..Len(items) |->
            [timestamp |-> items[i].timestamp, data |-> json_loads(items[i].data)]]

ScrapingResultsIn(doc) ==
    LET items == Section(doc, "scraping_results").items
    IN  [i \in 1..Len(items) |->
            [timestamp |-> items[i].timestamp, url |-> items[i].url,
             data |-> json_loads(items[i].data)]]

AnalysisResultsIn(doc) ==
    LET items == Section(doc, "analysis_results").items
    IN  [i \in 1..Len(items) |->
            [timestamp |-> items[i].timestamp, description |-> items[i].description,
             data |-> json_loads(items[i].data)]]

PreferencesIn(doc) ==
    LET items == Section(doc, "preferences").items
    IN  [k \in DOMAIN items |-> {json_loads(items[k])}]

ContentIn(doc) ==
    [conversations |-> ConversationsIn(doc), preferences |-> PreferencesIn(doc),
     scraping_results |-> ScrapingResultsIn(doc), analysis_results |-> AnalysisResultsIn(doc)]

Ids(rows) == {r.id : r \in rows}

(***************************************************************************)
(* C1.  After N successful save_conversation calls with no clear or import *)
(* in between, load_conversations(k) for every 0 <= k <= N is the k most   *)
(* recently saved records, newest first (descending id); a call that has   *)
(* just returned returned exactly that.  The same for scraping results     *)
(* and analysis results.                                                   *)
(***************************************************************************)
NewestFirst(saved, k, Entry(_)) == [i \in 1..k |-> Entry(saved[Len(saved) + 1 - i])]

LoadReturnsSavedNewestFirst ==
    /\ \A k \in 0..Len(appended.conversations) :
          LoadConversationRows(k) = NewestFirst(appended.conversations, k, ConversationEntry)
    /\ \A k \in 0..Len(appended.scraping_results) :
          LoadScrapingRows(k) = NewestFirst(appended.scraping_results, k, ScrapingEntry)
    /\ \A k \in 0..Len(appended.analysis_results) :
          LoadAnalysisRows(k) = NewestFirst(appended.analysis_results, k, AnalysisEntry)
    /\ Succeeded("load_conversations") /\ last.arg[1] \in 0..Len(appended.conversations)
          => last.ret = NewestFirst(appended.conversations, last.arg[1], ConversationEntry)
    /\ Succeeded("load_scraping_results") /\ last.arg[1] \in 0..Len(appended.scraping_results)
          => last.ret = NewestFirst(appended.scraping_results, last.arg[1], ScrapingEntry)
    /\ Succeeded("load_analysis_results") /\ last.arg[1] \in 0..Len(appended.analysis_results)
          => last.ret = NewestFirst(appended.analysis_results, last.arg[1], AnalysisEntry)

\* Two conversations saved, load_conversations(1) returned the second alone.
LoadedMostRecentOfTwo ==
    /\ Succeeded("load_conversations")
    /\ last.arg = <<1>>
    /\ Len(appended.conversations) = 2
    /\ Len(last.ret) = 1
    /\ last.ret[1].id = appended.conversations[2].id
    /\ last.ret[1].id > appended.conversations[1].id

(***************************************************************************)
(* C2.  In each auto-id category, every record a step adds (by a save or   *)
(* an import, merge or replace) has an id strictly greater than every id   *)
(* a committed record of the category has ever had, also after the         *)
(* category was emptied by a clear or a replace-mode import.               *)
(***************************************************************************)
IdsNeverReused ==
    [][\A t \in AutoIdTables :
          \A r \in Database'[t] \ Database[t] : \A i \in issued[t] : r.id > i]_vars

\* A conversation saved into the category after a clear emptied it: its id is 2.
SavedAfterClear ==
    /\ Succeeded("save_conversation")
    /\ last.before.conversations = {}
    /\ issued.conversations = {1, 2}
    /\ Ids(conversations) = {2}

(***************************************************************************)
(* C3.  Round trip.  A successful export_all_data writes a document whose  *)
(* content is the store's, and a successful import_data of the export      *)
(* file with replace_existing=True leaves a store whose content is the     *)
(* document's: the same records per category in the same order with the    *)
(* same timestamps, payloads, urls and descriptions, and the same          *)
(* preference mapping.  Ids are not part of the content.                   *)
(***************************************************************************)
ExportImportRoundTrip ==
    /\ Succeeded("export_all_data") => ContentIn(file) = ContentOf(Database)
    /\ Succeeded("import_data") /\ last.arg = <<ExportPath, TRUE>>
          => ContentOf(Database) = ContentIn(file)

\* The export file holds a conversation with id 1 and a preference; the
\* import has brought both back, the conversation under another id.
ReimportedUnderNewIds ==
    /\ Succeeded("import_data")
    /\ last.arg = <<ExportPath, TRUE>>
    /\ Len(file.body.conversations.items) = 1
    /\ file.body.conversations.items[1].id = 1
    /\ Ids(conversations) = {2}
    /\ preferences # {}

(***************************************************************************)
(* C4.  After a successful import_data with replace_existing=True the      *)
(* content of each of the four categories is exactly the content of the    *)
(* document's section, and empty where the document has no such section:   *)
(* no record and no preference key from before the import is left.         *)
(***************************************************************************)
Categories == AutoIdTables \cup {"preferences"}

ImportedDocument == FileContent(last.arg[1])

ReplaceImportLeavesTheDocument ==
    Succeeded("import_data") /\ last.arg[2]
        => /\ ContentOf(Database) = ContentIn(ImportedDocument)
           /\ \A t \in AutoIdTables : Ids(Database[t]) \cap Ids(last.before[t]) = {}

\* A store with a conversation and a preference, replaced by a document
\* holding one conversation and no preferences section.
ReplacedByConversationDocument ==
    /\ Succeeded("import_data")
    /\ last.arg = <<"conv", TRUE>>
    /\ last.before.conversations # {}
    /\ last.before.preferences # {}
    /\ preferences = {}
    /\ Cardinality(conversations) = 1
    /\ \A r \in conversations : r.timestamp = Earlier

(***************************************************************************)
(* C5.  After a successful import_data with replace_existing=False, an     *)
(* auto-id category that held m records, given a section of n records,     *)
(* holds m + n records: the m it held, unchanged in id, timestamp and      *)
(* payload, and n more.                                                    *)
(***************************************************************************)
MergeImportAddsToExisting ==
    Succeeded("import_data") /\ ~last.arg[2]
        => \A t \in AutoIdTables :
              /\ last.before[t] \subseteq Database[t]
              /\ Cardinality(Database[t])
                    = Cardinality(last.before[t]) + Len(Section(ImportedDocument, t).items)

\* One conversation in the store, one in the document: two afterwards.
OnePlusOneConversation ==
    /\ Succeeded("import_data")
    /\ last.arg = <<"conv", FALSE>>
    /\ Cardinality(last.before.conversations) = 1
    /\ Cardinality(conversations) = 2
    /\ last.before.conversations \subseteq conversations

(***************************************************************************)
(* C6.  After a successful import_data with replace_existing=False the     *)
(* preferences are the former mapping overridden by the document's: each   *)
(* key of the document has the document's value, every other key keeps     *)
(* its value, and no key has two rows.                                     *)
(***************************************************************************)
Overridden(old, new) ==
    [k \in DOMAIN old \cup DOMAIN new |-> IF k \in DOMAIN new THEN new[k] ELSE old[k]]

MergeImportUpsertsPreferences ==
    Succeeded("import_data") /\ ~last.arg[2]
        => /\ PreferencesOf(Database)
                 = Overridden(PreferencesOf(last.before), PreferencesIn(ImportedDocument))
           /\ Cardinality(preferences) = Cardinality({r.key : r \in preferences})

\* theme was a list and api_keys was set; the document's theme has replaced
\* the list and api_keys is as it was.
ThemeOverwrittenApiKeysKept ==
    /\ Succeeded("import_data")
    /\ last.arg = <<"prefs", FALSE>>
    /\ last.before.preferences = {[key |-> "theme", value |-> JsonArray],
                                  [key |-> "api_keys", value |-> JsonObject]}
    /\ preferences = {[key |-> "theme", value |-> JsonObject],
                      [key |-> "api_keys", value |-> JsonObject]}

(***************************************************************************)
(* C7.  An import_data call that returns False leaves the four categories  *)
(* as they were before the call, in merge and in replace mode: the         *)
(* deletions of replace mode and the records inserted before the failing   *)
(* one are not in the tables later operations read.                        *)
(***************************************************************************)
FailedImportChangesNothing ==
    last.op = "import_data"
        => (last.ret = FALSE
               => /\ \A t \in Categories : Database[t] = last.before[t]
                  /\ LoadConversationRows(-1)
                        = [i \in 1..Cardinality(last.before.conversations) |->
                              ConversationEntry(OrderByIdDesc(last.before.conversations)[i])])

\* Replace mode, a document whose second conversation has no 'data': the
\* DELETEs and the first INSERT had run when the KeyError was raised.
FailedAfterDeletesAndInsert ==
    /\ last.op = "import_data"
    /\ last.arg = <<"nodata", TRUE>>
    /\ last.exc = "KeyError"
    /\ last.ret = FALSE
    /\ conversations # {}
    /\ preferences # {}

(***************************************************************************)
(* C8.  import_data of a document whose sections are well formed and of    *)
(* which some are missing: no missing section makes the call fail (the     *)
(* call fails only when the database or the file cannot be used); on a     *)
(* database that can be written the call returns True; a missing section   *)
(* is an empty one, so its category is emptied in replace mode and         *)
(* unchanged in merge mode.                                                *)
(***************************************************************************)
RecordFields ==
    [conversations |-> {"timestamp", "data"},
     scraping_results |-> {"timestamp", "url", "data"},
     analysis_results |-> {"timestamp", "description", "data"}]

WellFormed(doc) ==
    /\ doc.type = "dict"
    /\ Section(doc, "preferences").type = "dict"
    /\ \A t \in AutoIdTables :
          /\ Section(doc, t).type = "list"
          /\ \A i \in 1..Len(Section(doc, t).items) :
                RecordFields[t] \subseteq DOMAIN Section(doc, t).items[i]

MissingSections(doc) == Categories \ DOMAIN doc.body

MissingSectionsAreEmpty ==
    /\ last = Idle
          => \A p \in Paths, r \in BOOLEAN :
                LET doc == FileContent(p)
                    txn == ImportTry(p, r, "none")
                IN  WellFormed(doc) /\ MissingSections(doc) # {}
                        => /\ txn.exc \in {"none", "OperationalError"}
                           /\ ~leaked_txn => txn.exc = "none"
                           /\ txn.exc = "none"
                                 => \A t \in MissingSections(doc) :
                                       txn.db[t] = IF r THEN {} ELSE Database[t]
    /\ last.op = "import_data"
          => LET doc == ImportedDocument
             IN  WellFormed(doc) /\ MissingSections(doc) # {}
                     => /\ last.exc \in {"none", "OperationalError", "OSError"}
                        /\ last.exc = "none"
                              => /\ last.ret = TRUE
                                 /\ \A t \in MissingSections(doc) :
                                       Database[t] = IF last.arg[2] THEN {}
                                                     ELSE last.before[t]

\* A document with an analysis section alone, merged into a store with a
\* conversation: True, the analysis added, the conversation as it was.
MergedAnalysisSectionAlone ==
    /\ Succeeded("import_data")
    /\ last.arg = <<"analysis", FALSE>>
    /\ last.ret = TRUE
    /\ conversations # {}
    /\ conversations = last.before.conversations
    /\ last.before.analysis_results = {}
    /\ analysis_results # {}

(***************************************************************************)
(* C9.  No operation lets an exception out: whatever is raised inside a    *)
(* call (the database or the file cannot be opened, the database is        *)
(* locked, the document is not JSON or has the wrong shape, the payload    *)
(* is not serializable), the call returns False; a load_* returns the      *)
(* empty list and load_preference the caller's default.                    *)
(***************************************************************************)
LoadOperations == {"load_conversations", "load_scraping_results", "load_analysis_results"}

NoFaultPropagates ==
    /\ last.raised = "none"
    /\ last.exc # "none"
          => CASE last.op \in LoadOperations -> last.ret = <<>>
               [] last.op = "load_preference" -> last.ret = last.arg[2]
               [] OTHER -> last.ret = FALSE

\* The export file could not be opened: export_all_data returned False.
ExportFailedOnFile ==
    /\ last.op = "export_all_data"
    /\ last.exc = "OSError"
    /\ last.raised = "none"
    /\ last.ret = FALSE

(***************************************************************************)
(* C10.  An append is all or nothing: when it returns True its category    *)
(* holds the records it held and exactly one more, with a fresh id, the    *)
(* time of the call and the payload's JSON text; when it returns False     *)
(* the category is as it was.  The other categories are as they were.      *)
(***************************************************************************)
AppendOperations ==
    [save_conversation |-> "conversations",
     save_scraping_result |-> "scraping_results",
     save_analysis_result |-> "analysis_results"]

Appended(row) ==
    /\ row.id \notin Ids(last.before[AppendOperations[last.op]])
    /\ row.timestamp = strftime(now)
    /\ CASE last.op = "save_conversation" ->
              row = [id |-> row.id, timestamp |-> row.timestamp,
                     conversation_data |-> json_dumps(last.arg[1])]
         [] last.op = "save_scraping_result" ->
              row = [id |-> row.id, timestamp |-> row.timestamp, url |-> last.arg[1],
                     data |-> json_dumps(last.arg[2])]
         [] last.op = "save_analysis_result" ->
              row = [id |-> row.id, timestamp |-> row.timestamp,
                     description |-> last.arg[1], data |-> json_dumps(last.arg[2])]

AppendAllOrNothing ==
    last.op \in DOMAIN AppendOperations
        => LET t == AppendOperations[last.op]
           IN  /\ last.ret = TRUE
                     => \E row \in Database[t] :
                           /\ Database[t] = last.before[t] \cup {row}
                           /\ Appended(row)
               /\ last.ret = FALSE => Database[t] = last.before[t]
               /\ \A u \in Categories \ {t} : Database[u] = last.before[u]

\* A scraping result whose data is a set, saved into a category that holds
\* a record: False, and the category holds that record alone.
UnserializableScrapingResultRefused ==
    /\ last.op = "save_scraping_result"
    /\ last.arg[2] = PySet
    /\ last.exc = "TypeError"
    /\ last.ret = FALSE
    /\ Cardinality(scraping_results) = 1
    /\ scraping_results = last.before.scraping_results

(***************************************************************************)
(* The store's clear behind each memory type of clear_memory, and the      *)
(* tables each names.                                                      *)
(***************************************************************************)
StoreClear ==
    [all |-> "clear_all_data", conversations |-> "clear_conversation_data",
     scraping |-> "clear_scraping_data", analysis |-> "clear_analysis_data"]

TablesOf ==
    [all |-> Categories, conversations |-> {"conversations"},
     preferences |-> {"preferences"}, scraping |-> {"scraping_results"},
     analysis |-> {"analysis_results"}]

ClearReturned(memory_type) ==
    IF memory_type \in DOMAIN StoreClear
    THEN last.op = StoreClear[memory_type]
    ELSE last.op = "clear_memory" /\ last.arg = <<memory_type>>

\* C11: clearing is available for each of the names all, conversations,
\* preferences, scraping and analysis: with no fault of the environment the
\* clear returns success and the tables it names hold no records afterwards.
ClearAvailableForFiveNames ==
    \A m \in MemoryTypes :
        ClearReturned(m) /\ last.fault = "none"
            => /\ last.ret = TRUE
               /\ \A t \in TablesOf[m] : Database[t] = {}

\* clear_memory("preferences") on a store that holds a preference: False,
\* and the preference is still there.
PreferencesNotCleared ==
    /\ ClearReturned("preferences")
    /\ last.ret = FALSE
    /\ preferences # {}
    /\ Database = last.before

SingleCategories == {"conversations", "scraping", "analysis"}

\* C12: clearing a single category changes only that category:
\* clear_conversation_data, clear_scraping_data and clear_analysis_data,
\* whether they succeed or fail, leave the rows of the three other
\* categories (ids, timestamps, payloads) exactly as they were.
SingleClearLeavesOtherCategories ==
    \A m \in SingleCategories :
        ClearReturned(m)
            => \A t \in Categories \ TablesOf[m] : Database[t] = last.before[t]

\* clear_conversation_data emptied a category that held a record while a
\* preference and a scraping result were stored: both are still there.
ConversationsClearedAmongOthers ==
    /\ Succeeded("clear_conversation_data")
    /\ last.before.conversations # {}
    /\ conversations = {}
    /\ preferences # {}
    /\ scraping_results # {}

\* C13: clearing is idempotent: with no fault of the environment, a clear
\* applied to tables that are already empty (a second clear in a row, or
\* clear_all_data on an empty store) returns True and leaves the store as it
\* was.
ClearIsIdempotent ==
    \A m \in DOMAIN StoreClear :
        /\ ClearReturned(m)
        /\ last.fault = "none"
        /\ \A t \in TablesOf[m] : last.before[t] = {}
        => /\ last.ret = TRUE
           /\ Database = last.before

\* clear_all_data on an empty store while the connection of a failed import
\* is still open: "database is locked", False.
ClearOfEmptyStoreRefused ==
    /\ last.op = "clear_all_data"
    /\ last.fault = "none"
    /\ \A t \in Categories : last.before[t] = {}
    /\ last.exc = "OperationalError"
    /\ last.ret = FALSE

MissingPreferenceGivesDefault ==
    /\ last.op = "load_preference"
    /\ \A r \in last.before.preferences : r.key # last.arg[1]
    => /\ last.ret = last.arg[2]
       /\ last.raised = "none"
       /\ Database = last.before

\* "theme" was stored when the store was exported and has been removed
\* since: load_preference("theme", "fallback") read the table and returned
\* "fallback".
RemovedThemeGivesDefault ==
    /\ Succeeded("load_preference")
    /\ last.arg = <<"theme", "fallback">>
    /\ Exported
    /\ "theme" \in DOMAIN PreferencesIn(file)
    /\ \A r \in preferences : r.key # "theme"
    /\ last.ret = "fallback"

\* The rows a call has added to a table.
Created(t) == IF last = Idle THEN {} ELSE Database[t] \ last.before[t]

\* C16: every record an operation writes to conversations, scraping_results
\* or analysis_results carries the local time of the write, assigned by the
\* store, never a timestamp of the caller or of input data.
WritesStampCurrentTime ==
    \A t \in AutoIdTables : \A r \in Created(t) : r.timestamp = strftime(now)

\* import_data has written a conversation under the timestamp its document
\* gives, a time before the run.
ImportedUnderDocumentTimestamp ==
    /\ Succeeded("import_data")
    /\ \E r \in Created("conversations") : r.timestamp = Earlier

(***************************************************************************)
(* Record lifecycle, call by call: what the call that has just returned    *)
(* created, changed and removed in an auto-id table.                       *)
(***************************************************************************)
Removed(t) == IF last = Idle THEN {} ELSE last.before[t] \ Database[t]

\* A row that was there before the call and is still there is the same row.
Immutable(t) ==
    last # Idle
        => \A r \in Database[t] : \A q \in last.before[t] : r.id = q.id => r = q

AppendOf(t) == CHOOSE op \in DOMAIN AppendOperations : AppendOperations[op] = t

ClearsOf(t) ==
    {"clear_all_data"} \cup {StoreClear[m] : m \in {n \in SingleCategories : t \in TablesOf[n]}}

RemovedByClearOrReplace(t) ==
    Removed(t) # {}
        => \/ last.op \in ClearsOf(t)
           \/ last.op = "import_data" /\ last.arg[2] = TRUE

\* C17 as stated: in each auto-id table a record is created by one append
\* call and by nothing else, is never changed while it exists, and is
\* removed only by a clear of its table, clear_all_data or a replace-mode
\* import.
CreatedByAppendAlone ==
    \A t \in AutoIdTables :
        /\ Created(t) # {} => last.op = AppendOf(t) /\ Cardinality(Created(t)) = 1
        /\ Immutable(t)
        /\ RemovedByClearOrReplace(t)

\* C17 amended: a record is created by one append call of its table, which
\* creates that record alone, or by one import_data call (merge or replace),
\* under an id the table did not hold; it is never changed while it exists,
\* and it is removed only by a clear of its table, clear_all_data or a
\* replace-mode import.
CreatedByAppendOrImport ==
    \A t \in AutoIdTables :
        /\ Created(t) # {}
              => /\ \/ last.op = AppendOf(t) /\ Cardinality(Created(t)) = 1
                    \/ last.op = "import_data"
                 /\ Ids(Created(t)) \cap Ids(last.before[t]) = {}
        /\ Immutable(t)
        /\ RemovedByClearOrReplace(t)

\* A merge-mode import created a conversation beside one the store already
\* held, and that one is as it was.
ImportCreatedBesideAppended ==
    /\ Succeeded("import_data")
    /\ last.arg[2] = FALSE
    /\ Cardinality(Created("conversations")) = 1
    /\ last.before.conversations # {}
    /\ last.before.conversations \subseteq conversations

\* C19: every store operation has closed the connection it opened by the
\* time it returns, on the success path and on every failure path, so that
\* the store holds no open connection and no uncommitted transaction
\* between two operations.
ConnectionClosedOnReturn ==
    /\ last.conn # "open"
    /\ ~leaked_txn

\* import_data failed on a record without 'data' after its DELETEs: it has
\* returned False with its connection open, and the connection's write
\* transaction outlives the call.
FailedImportLeftTransactionOpen ==
    /\ last.op = "import_data"
    /\ last.fault = "none"
    /\ last.exc = "KeyError"
    /\ last.ret = FALSE
    /\ last.conn = "open"
    /\ leaked_txn

\* C20: initialization is idempotent: constructing a SessionManager on a
\* data directory whose database exists does not fail and leaves the rows
\* of all four categories and the id counters as they were, however often
\* it is done and whatever an earlier call left behind.
InitializationIdempotent ==
    last.op = "__init__"
        => /\ last.raised = "none"
           /\ last.conn = "closed"
           /\ Database = last.before

\* A SessionManager constructed on a store that holds a conversation, a
\* preference and a counter ahead of the rows, while the connection of a
\* failed import still holds the write lock.
ConstructedOnPopulatedStore ==
    /\ last.op = "__init__"
    /\ conversations # {}
    /\ preferences # {}
    /\ \E t \in AutoIdTables : sqlite_sequence[t] > MaxRowId(Database[t])
    /\ leaked_txn

\* C18: the document export_all_data writes is a snapshot of one single
\* store state: with a writer committing on the same database during the
\* export, the four sections of the document are the four categories of one
\* of the states the store was in during the export, never one category
\* from before a write and another from after it.
ExportIsOneSnapshot ==
    exporting.pc = "done"
        => \E db \in exporting.seen : ContentIn(file) = ContentOf(db)

\* The document holds a conversation and no preference, while every state
\* of the store during the export that held the conversation held a
\* preference as well.
ExportMixedTwoStates ==
    /\ exporting.pc = "done"
    /\ Len(ConversationsIn(file)) = 1
    /\ DOMAIN PreferencesIn(file) = {}
    /\ \A db \in exporting.seen : db.conversations # {} => db.preferences # {}

\* C8 as stated: import_data of a well-formed document in which sections
\* are missing, with the database and the file usable, returns True, and the
\* category of each missing section is empty in replace mode and unchanged
\* in merge mode.
MissingSectionsAccepted ==
    /\ last.op = "import_data"
    /\ last.fault = "none"
    /\ WellFormed(ImportedDocument)
    /\ MissingSections(ImportedDocument) # {}
    => /\ last.ret = TRUE
       /\ \A t \in MissingSections(ImportedDocument) :
             Database[t] = IF last.arg[2] THEN {} ELSE last.before[t]

\* A document with a conversation section alone, refused with "database is
\* locked" while the connection of a failed import is open.
WellFormedDocumentRefused ==
    /\ last.op = "import_data"
    /\ last.arg[1] = "conv"
    /\ last.fault = "none"
    /\ last.exc = "OperationalError"
    /\ last.ret = FALSE

\* C21: an append followed by a load returns the payload verbatim: once
\* save_scraping_result(url, data) has succeeded, load_scraping_results(1)
\* is a single record whose url is url and whose data equals data; the same
\* for save_conversation and save_analysis_result (description, data).
LoadReturnsPayloadVerbatim ==
    /\ Succeeded("save_scraping_result")
          => /\ Len(LoadScrapingRows(1)) = 1
             /\ LoadScrapingRows(1)[1].url = last.arg[1]
             /\ LoadScrapingRows(1)[1].data = last.arg[2]
    /\ Succeeded("save_conversation")
          => /\ Len(LoadConversationRows(1)) = 1
             /\ LoadConversationRows(1)[1].data = last.arg[1]
    /\ Succeeded("save_analysis_result")
          => /\ Len(LoadAnalysisRows(1)) = 1
             /\ LoadAnalysisRows(1)[1].description = last.arg[1]
             /\ LoadAnalysisRows(1)[1].data = last.arg[2]

\* save_scraping_result of a dict with the key 1 returned True, and the
\* record loads with the key '1'.
IntKeyLoadedAsString ==
    /\ Succeeded("save_scraping_result")
    /\ last.arg[2] = PyIntKeyDict
    /\ LoadScrapingRows(1)[1].data = PyDict

\* load_*(-1): every record of a table, as the load operation lists them.
LoadAll(t) ==
    CASE t = "conversations" -> LoadConversationRows(-1)
      [] t = "scraping_results" -> LoadScrapingRows(-1)
      [] t = "analysis_results" -> LoadAnalysisRows(-1)

\* C22: after a successful merge-mode import every imported record has an
\* id greater than the id of every record its category held, the imported
\* records follow the records held before in id order and keep the order of
\* the document among themselves, and a load lists all imported records
\* before all the records held before.
MergeImportAppendsAfterExisting ==
    Succeeded("import_data") /\ ~last.arg[2]
        => \A t \in AutoIdTables :
              LET n == Len(Section(ImportedDocument, t).items)
              IN  /\ \A r \in Created(t) : \A q \in last.before[t] : r.id > q.id
                  /\ ContentOf(Database)[t]
                        = ContentOf(last.before)[t] \o ContentIn(ImportedDocument)[t]
                  /\ Len(LoadAll(t)) = n + Cardinality(last.before[t])
                  /\ \A i \in 1..Len(LoadAll(t)) :
                        LoadAll(t)[i].id \in Ids(last.before[t]) <=> i > n

\* A conversation merged into a store that held one: a load lists the
\* imported conversation first and the one held before second.
ImportedListedBeforeExisting ==
    /\ Succeeded("import_data")
    /\ last.arg = <<"conv", FALSE>>
    /\ Cardinality(last.before.conversations) = 1
    /\ Len(LoadAll("conversations")) = 2
    /\ LoadAll("conversations")[1].timestamp = Earlier
    /\ LoadAll("conversations")[1].id \notin Ids(last.before.conversations)
    /\ LoadAll("conversations")[2].id \in Ids(last.before.conversations)
    /\ LoadAll("conversations")[2].timestamp # Earlier

\* C23: the limit of load_conversations, load_scraping_results and
\* load_analysis_results is a maximum: for every integer limit, zero and
\* negative ones included, the list returned holds at most limit records
\* (none for a limit below one), and the call raises nothing when fewer
\* records exist.
LimitIsAMaximum ==
    last.op \in LoadOperations
        => /\ Len(last.ret) <= Max(last.arg[1], 0)
           /\ last.raised = "none"

\* load_conversations(-1) on a store with two conversations returned both.
NegativeLimitReturnsAll ==
    /\ Succeeded("load_conversations")
    /\ last.arg = <<-1>>
    /\ Cardinality(conversations) = 2
    /\ Len(last.ret) = 2

ReadOnlyOperations ==
    LoadOperations \cup {"load_preference", "export_all_data"}

\* C24: an append or a preference write changes its own category alone:
\* the rows of the three other categories and the id counters of the other
\* tables are as before the call; load_*, load_preference and
\* export_all_data leave the rows of all four categories and the id
\* counters unchanged.
WritesChangeOwnCategoryOnly ==
    /\ last.op \in DOMAIN AppendOperations
          => LET t == AppendOperations[last.op]
             IN  /\ \A u \in Categories \ {t} : Database[u] = last.before[u]
                 /\ \A u \in AutoIdTables \ {t} :
                       sqlite_sequence[u] = last.before.sqlite_sequence[u]
    /\ last.op = "save_preference"
          => /\ \A u \in AutoIdTables : Database[u] = last.before[u]
             /\ sqlite_sequence = last.before.sqlite_sequence
    /\ last.op \in ReadOnlyOperations => Database = last.before

\* An analysis result saved into a store that holds a conversation and a
\* preference.
AnalysisSavedBesideOthers ==
    /\ Succeeded("save_analysis_result")
    /\ analysis_results # last.before.analysis_results
    /\ conversations # {}
    /\ preferences # {}

\* C25: replace-mode import is idempotent up to ids: a successful
\* import_data(document, replace_existing=True) into the store that an
\* import of the same document has left gives the same records per
\* category, in the same order with the same payloads, and the same
\* preference mapping, while every id it assigns is greater than every id
\* the records held before.
ReplaceImportIdempotentUpToIds ==
    /\ Succeeded("import_data")
    /\ last.arg[2]
    /\ ContentOf(last.before) = ContentIn(ImportedDocument)
    => /\ ContentOf(Database) = ContentOf(last.before)
       /\ \A t \in AutoIdTables :
             \A r \in Database[t] : \A q \in last.before[t] : r.id > q.id

\* The one-conversation document imported in replace mode twice: the
\* conversation of the first import had id 1, that of the second has id 2.
ConversationDocumentImportedTwice ==
    /\ Succeeded("import_data")
    /\ last.arg = <<"conv", TRUE>>
    /\ Ids(last.before.conversations) = {1}
    /\ \A q \in last.before.conversations : q.timestamp = Earlier
    /\ ContentOf(last.before) = ContentIn(ImportedDocument)
    /\ Ids(conversations) = {2}

(***************************************************************************)
(* The controller's modules.  A call that makes no store call records      *)
(* itself in last.                                                         *)
(***************************************************************************)
MaxRequests == 2
MaxHistory == 1
HistoryLimit == 100

StoreUnchanged ==
    UNCHANGED <<conversations, preferences, scraping_results, analysis_results,
                sqlite_sequence, leaked_txn, file, now, appended, issued>>

Returned(op, arg, exc, ret) ==
    last' = [op |-> op, arg |-> arg, fault |-> "none", before |-> Database, exc |-> exc,
             raised |-> exc, conn |-> "none", ret |-> ret]

\* list[:n], the first n items.
FirstItems(list, n) == SubSeq(list, 1, IF n < Len(list) THEN n ELSE Len(list))

\* list[-n:], and -0 is 0: list[-0:] is the whole list.
LastItems(list, n) ==
    IF n = 0 THEN list ELSE SubSeq(list, Max(Len(list) - n, 0) + 1, Len(list))

(***************************************************************************)
(* NLPModule                                                               *)
(***************************************************************************)
AddToContext(context, message, max_context_length) ==
    LET added == Append(context, message)
    IN  IF Len(added) > max_context_length
        THEN LastItems(added, max_context_length)
        ELSE added

add_to_context(message) ==
    LET context == AddToContext(memory.context, message, memory.max_context_length)
    IN  /\ last = Idle
        /\ Len(context) <= MaxMessages
        /\ memory' = [memory EXCEPT !.context = context]
        /\ Returned("add_to_context", <<message>>, "none", "None")
        /\ StoreUnchanged
        /\ UNCHANGED <<time, recorded>>

clear_context ==
    /\ last = Idle
    /\ memory' = [memory EXCEPT !.context = <<>>]
    /\ Returned("clear_context", <<>>, "none", "None")
    /\ StoreUnchanged
    /\ UNCHANGED <<time, recorded>>

\* The user message, then the placeholder response of the current provider.
process_input(user_input) ==
    LET asked == AddToContext(memory.context, Message("user", user_input),
                              memory.max_context_length)
        context == AddToContext(asked, Message("assistant", Placeholder),
                                memory.max_context_length)
    IN  /\ last = Idle
        /\ Len(asked) <= MaxMessages
        /\ Len(context) <= MaxMessages
        /\ memory' = [memory EXCEPT !.context = context]
        /\ Returned("process_input", <<user_input>>, "none", Placeholder)
        /\ StoreUnchanged
        /\ UNCHANGED <<time, recorded>>

(***************************************************************************)
(* WebScrapingModule.fetch_page and DataAnalysisModule.load_data_from_list *)
(* as far as their histories go.                                           *)
(***************************************************************************)
Urls == {"https://x.test", "ftp://x.test"}

validate_url(url) == url = "https://x.test"

fetch_page(url, fetched) ==
    /\ last = Idle
    /\ Len(memory.history) < MaxHistory
    /\ memory' = IF validate_url(url) /\ fetched
                 THEN [memory EXCEPT !.history =
                          Append(@, [url |-> url, timestamp |-> time, status_code |-> 200])]
                 ELSE memory
    /\ Returned("fetch_page", <<url>>, "none",
                IF validate_url(url) /\ fetched THEN "<html>" ELSE "None")
    /\ StoreUnchanged
    /\ UNCHANGED <<time, recorded>>

load_data_from_list(loaded) ==
    /\ last = Idle
    /\ Len(memory.analysis_history) < MaxHistory
    /\ memory' = IF loaded
                 THEN [memory EXCEPT !.analysis_history =
                          Append(@, [timestamp |-> strftime(now),
                                     action |-> "Loaded data from list"])]
                 ELSE memory
    /\ Returned("load_data_from_list", <<>>, "none", loaded)
    /\ StoreUnchanged
    /\ UNCHANGED <<time, recorded>>

(***************************************************************************)
(* APIIntegrationManager.  gemini needs an API key, ollama is local and    *)
(* needs none (mistral and groq are written as gemini is).  The outcome of *)
(* the HTTP request is the environment's: a response with the text, an     *)
(* exception, a response without the field the text is read from, or a     *)
(* gemini response whose candidate has no content.                         *)
(***************************************************************************)
\* self.api_keys[provider] = api_key
SetApiKey(api_keys, provider, api_key) ==
    IF \E i \in DOMAIN api_keys : api_keys[i][1] = provider
    THEN [i \in DOMAIN api_keys |->
             IF api_keys[i][1] = provider THEN <<provider, api_key>> ELSE api_keys[i]]
    ELSE Append(api_keys, <<provider, api_key>>)

get_api_key(api_keys, provider) ==
    IF \E i \in DOMAIN api_keys : api_keys[i][1] = provider
    THEN (CHOOSE a \in {api_keys[i] : i \in DOMAIN api_keys} : a[1] = provider)[2]
    ELSE "None"

Rejected(text) == [response |-> [kind |-> "error", text |-> text], recorded |-> FALSE]

\* The request made: the response, or {'error': str(e)}, goes to the history.
Requested(outcome) ==
    [response |-> [kind |-> outcome,
                   text |-> CASE outcome = "ok" -> ResponseText
                              [] outcome = "error" -> RequestException
                              [] OTHER -> ""],
     recorded |-> TRUE]

gemini_generate_text(api_keys, outcome) ==
    IF get_api_key(api_keys, "gemini") = "None" THEN Rejected(KeyNotSet) ELSE Requested(outcome)

ollama_generate_text(outcome) == Requested(outcome)

generate_text(api_keys, provider, outcome) ==
    CASE provider = "gemini" -> gemini_generate_text(api_keys, outcome)
      [] provider = "ollama" -> ollama_generate_text(outcome)
      [] OTHER -> Rejected(UnknownProvider)

HistoryEntry(provider, response) ==
    [timestamp |-> time + 1, provider |-> provider, request_type |-> "text_generation",
     response_data |-> response]

\* The trim keeping the oldest entries.
AddToHistoryKeepingOldest(request_history, entry) ==
    FirstItems(Append(request_history, entry), HistoryLimit)

_add_to_history(request_history, entry) ==
    LET added == Append(request_history, entry)
    IN  IF Len(added) > HistoryLimit THEN LastItems(added, HistoryLimit) ELSE added

\* request_history, time and recorded after a call of generate_text.
HistoryAfter(provider, call) ==
    IF call.recorded
    THEN [request_history |-> _add_to_history(memory.request_history,
                                              HistoryEntry(provider, call.response)),
          time |-> time + 1,
          recorded |-> Append(recorded, HistoryEntry(provider, call.response))]
    ELSE [request_history |-> memory.request_history, time |-> time, recorded |-> recorded]

\* A provider call made of the manager itself.
provider_call(provider, outcome) ==
    LET call == generate_text(memory.api_keys, provider, outcome)
        after == HistoryAfter(provider, call)
    IN  /\ last = Idle
        /\ memory' = [memory EXCEPT !.request_history = after.request_history]
        /\ time' = after.time
        /\ recorded' = after.recorded
        /\ Returned("generate_text", <<provider>>, "none", call.response)
        /\ StoreUnchanged

clear_history ==
    /\ last = Idle
    /\ memory' = [memory EXCEPT !.request_history = <<>>]
    /\ recorded' = <<>>
    /\ Returned("clear_history", <<>>, "none", "None")
    /\ StoreUnchanged
    /\ UNCHANGED time

\* APIIntegrationManager.set_api_key: in memory alone.
api_integration_set_api_key(provider, api_key) ==
    /\ last = Idle
    /\ memory' = [memory EXCEPT !.api_keys = SetApiKey(@, provider, api_key)]
    /\ Returned("api_integration.set_api_key", <<provider, api_key>>, "none", "None")
    /\ StoreUnchanged
    /\ UNCHANGED <<time, recorded>>

(***************************************************************************)
(* ApplicationController.  set_api_key and process_nlp_request ignore what *)
(* the store returns; import_data and export_data are the store's.         *)
(***************************************************************************)
\* _load_api_keys: what a controller constructed on this store sets, one
\* key after the other, in a manager that holds none.
_load_api_keys == LoadPreferenceValue("api_keys", KeyMapLiteral(<<>>))

\* api_integration.set_api_key, then _save_api_keys.
set_api_key(provider, api_key, fault) ==
    LET api_keys == SetApiKey(memory.api_keys, provider, api_key)
    IN  /\ memory' = [memory EXCEPT !.api_keys = api_keys]
        /\ save_preference("api_keys", KeyMapLiteral(api_keys), fault)
        /\ UNCHANGED <<time, recorded>>

\* response_data['candidates'][0]['content']['parts'][0]['text'] and its like.
ResponseTextOf(provider, response) ==
    CASE response.kind = "error" -> "Error: " \o response.text
      [] response.kind = "ok" -> response.text
      [] OTHER -> DefaultResponse

\* A candidate without 'content': the subscript raises.
Subscripted(provider, response) ==
    IF provider = "gemini" /\ response.kind = "malformed" THEN "KeyError" ELSE "none"

process_nlp_request(user_input, provider, outcome, fault) ==
    LET max_context_length == memory.max_context_length
        asked == AddToContext(memory.context, Message("user", user_input), max_context_length)
        call == generate_text(memory.api_keys, provider, outcome)
        after == HistoryAfter(provider, call)
        response_text == ResponseTextOf(provider, call.response)
        context == AddToContext(asked, Message("assistant", response_text), max_context_length)
    IN  /\ Len(asked) <= MaxMessages
        /\ time' = after.time
        /\ recorded' = after.recorded
        /\ IF Subscripted(provider, call.response) # "none"
           THEN /\ last = Idle
                /\ fault = "none"
                /\ memory' = [memory EXCEPT !.context = asked,
                                            !.request_history = after.request_history]
                /\ Returned("process_nlp_request", <<user_input, provider>>,
                            Subscripted(provider, call.response), "None")
                /\ StoreUnchanged
           ELSE /\ Len(context) <= MaxMessages
                /\ memory' = [memory EXCEPT !.context = context,
                                            !.request_history = after.request_history]
                /\ save_conversation(ContextLiteral(context), fault)

(***************************************************************************)
(* A session of the NLP module alone, under any configured                 *)
(* max_context_length of ContextLengths.                                   *)
(***************************************************************************)
ContextLengths == {0, 1, 2}
ContextInputs ==
    {Message("user", "hi"), Message("assistant", ResponseText),
     Message("assistant", DefaultResponse)}

Configured ==
    /\ conversations = {}
    /\ preferences = {}
    /\ scraping_results = {}
    /\ analysis_results = {}
    /\ sqlite_sequence = [t \in AutoIdTables |-> 0]
    /\ leaked_txn = FALSE
    /\ file = NoFile
    /\ now = 1
    /\ last = Idle
    /\ appended = NoneAppended
    /\ issued = [t \in AutoIdTables |-> {}]
    /\ \E n \in ContextLengths : memory = [NoMemory EXCEPT !.max_context_length = n]
    /\ exporting = NotExporting
    /\ time = 0
    /\ recorded = <<>>

NlpNext ==
    \/ \E m \in ContextInputs : add_to_context(m) /\ UNCHANGED exporting
    \/ clear_context /\ UNCHANGED exporting
    \/ \E u \in UserInputs : process_input(u) /\ UNCHANGED exporting
    \/ take_result

NlpSpec == Configured /\ [][NlpNext]_vars

(***************************************************************************)
(* A session of the controller's requests: requests and clears, pages      *)
(* fetched and data loaded, and the import of a file that fails half way,  *)
(* under any configured max_context_length of ContextLengths.  The gemini  *)
(* key is set in memory alone.                                             *)
(***************************************************************************)
ProviderCalls ==
    {<<"gemini", "ok">>, <<"gemini", "malformed">>, <<"ollama", "empty">>, <<"unknown", "ok">>}

ControllerNext ==
    \/ \E u \in UserInputs, c \in ProviderCalls, f \in DbFaults :
          /\ time < MaxRequests
          /\ process_nlp_request(u, c[1], c[2], f)
          /\ UNCHANGED exporting
    \/ api_integration_set_api_key("gemini", "k1") /\ UNCHANGED exporting
    \/ \E u \in Urls, fetched \in BOOLEAN : fetch_page(u, fetched) /\ UNCHANGED exporting
    \/ \E loaded \in BOOLEAN : load_data_from_list(loaded) /\ UNCHANGED exporting
    \/ \E m \in MemoryTypes, f \in DbFaults : clear_memory(m, f) /\ UNCHANGED exporting
    \/ import_data("nodata", FALSE, "none") /\ UNCHANGED <<memory, exporting, time, recorded>>
    \/ gc_collect
    \/ take_result

ControllerSpec == Configured /\ [][ControllerNext]_vars

(***************************************************************************)
(* A session of the controller's keys: set_api_key, clear_memory,          *)
(* import_data and export_data, under the default configuration.           *)
(***************************************************************************)
KeysNext ==
    \/ \E a \in ApiKeyInputs, f \in DbFaults :
          set_api_key(a[1], a[2], f) /\ UNCHANGED exporting
    \/ \E m \in MemoryTypes, f \in DbFaults : clear_memory(m, f) /\ UNCHANGED exporting
    \/ \E p \in {"prefs", "full", "nourl", "corrupt", ExportPath}, r \in BOOLEAN, f \in FileFaults :
          /\ f = "none" \/ p = "full"
          /\ import_data(p, r, f)
          /\ UNCHANGED <<memory, exporting, time, recorded>>
    \/ \E f \in FileFaults :
          export_all_data(f) /\ UNCHANGED <<memory, exporting, time, recorded>>
    \/ gc_collect
    \/ take_result

KeysSpec == Init /\ [][KeysNext]_vars

(***************************************************************************)
(* A session of requests and clears under the default configuration:       *)
(* requests answered by the local provider, pages fetched, data loaded,    *)
(* and clear_memory of any memory type under any fault.                    *)
(***************************************************************************)
ClearNext ==
    \/ \E u \in UserInputs, p \in {"ollama", "unknown"} :
          /\ time < MaxRequests
          /\ process_nlp_request(u, p, "ok", "none")
          /\ UNCHANGED exporting
    \/ \E u \in Urls, fetched \in BOOLEAN : fetch_page(u, fetched) /\ UNCHANGED exporting
    \/ \E loaded \in BOOLEAN : load_data_from_list(loaded) /\ UNCHANGED exporting
    \/ \E m \in MemoryTypes, f \in DbFaults : clear_memory(m, f) /\ UNCHANGED exporting
    \/ take_result

ClearSpec == Init /\ [][ClearNext]_vars

(***************************************************************************)
(* The in-memory state that goes with each memory type of clear_memory.    *)
(***************************************************************************)
ModulesOf ==
    [all |-> {"context", "history", "analysis_history", "request_history"},
     conversations |-> {"context"},
     scraping |-> {"history"},
     analysis |-> {"analysis_history"}]

\* The memory with the named fields emptied and every other field as it was.
Emptied(fields) == [f \in DOMAIN memory |-> IF f \in fields THEN <<>> ELSE memory[f]]

\* C26: clear_memory keeps the in-memory state and the store in step.  A
\* clear_memory of all, conversations, scraping or analysis empties the
\* in-memory state of the matching modules when the store's clear returned
\* True and leaves every module as it was when it returned False, the other
\* modules being untouched either way; a clear_memory of any other memory
\* type returns False and changes neither the store nor any module.
ClearMemoryInStep ==
    [][last = Idle =>
        /\ \A m \in DOMAIN ModulesOf :
              last'.op = StoreClear[m] =>
                  /\ last'.ret \in BOOLEAN
                  /\ last'.ret => memory' = Emptied(ModulesOf[m])
                  /\ ~last'.ret => memory' = memory
        /\ last'.op = "clear_memory" =>
              /\ last'.ret = FALSE
              /\ memory' = memory
              /\ Database' = Database]_vars

\* A clear_memory("conversations") that returned True after a request had
\* been answered: the context the request filled is empty, the request
\* history it filled as well is kept.
ContextClearedHistoryKept ==
    /\ Succeeded("clear_conversation_data")
    /\ last.ret
    /\ last.before.conversations # {}
    /\ memory.context = <<>>
    /\ memory.request_history # <<>>

(***************************************************************************)
(* The context a bounded NLP module holds after messages are added: the    *)
(* last n of them, none when n is 0.                                       *)
(***************************************************************************)
MostRecent(list, n) == SubSeq(list, Max(Len(list) - n, 0) + 1, Len(list))

\* C27: the NLP context is bounded.  Under every configured
\* max_context_length >= 0, add_to_context, process_input and clear_context
\* leave a context of at most max_context_length messages: the most recent
\* ones of the former context followed by the added ones, in insertion order.
ContextBounded ==
    [][last = Idle =>
        /\ last'.op \in {"add_to_context", "process_input", "clear_context"} =>
              Len(memory'.context) <= memory.max_context_length
        /\ last'.op = "add_to_context" =>
              memory'.context = MostRecent(Append(memory.context, last'.arg[1]),
                                           memory.max_context_length)
        /\ last'.op = "process_input" =>
              memory'.context =
                  MostRecent(memory.context
                                 \o <<Message("user", last'.arg[1]),
                                      Message("assistant", Placeholder)>>,
                             memory.max_context_length)
        /\ last'.op = "clear_context" => memory'.context = <<>>]_vars

\* A module configured with max_context_length 0 holding three messages.
UnboundedContext ==
    /\ memory.max_context_length = 0
    /\ Len(memory.context) = MaxMessages

\* C28: the persisted API keys stay consistent with the in-memory ones.
\* Once a key has been set through set_api_key, the 'api_keys' preference of
\* the store, as a controller constructed on the store would load it, is the
\* API integration manager's key map, after every controller operation.
PersistedKeysMatchMemory ==
    memory.api_keys # <<>> => _load_api_keys = KeyMapLiteral(memory.api_keys)

\* A clear_memory("all") that returned True under no fault: the manager
\* still holds the key that was set, the store holds no preference.
KeysClearedFromStoreAlone ==
    /\ Succeeded("clear_all_data")
    /\ last.fault = "none"
    /\ last.ret
    /\ [key |-> "api_keys", value |-> KeyMapJson(memory.api_keys)] \in last.before.preferences
    /\ memory.api_keys # <<>>
    /\ preferences = {}

\* An import that returned True under no fault and put another key map in
\* the store than the one the manager holds and had saved.
KeysReplacedByImport ==
    /\ Succeeded("import_data")
    /\ last.fault = "none"
    /\ memory.api_keys # <<>>
    /\ [key |-> "api_keys", value |-> KeyMapJson(memory.api_keys)] \in last.before.preferences
    /\ [key |-> "api_keys", value |-> JsonObject] \in preferences

(***************************************************************************)
(* The steps that are calls of process_nlp_request: the save_conversation  *)
(* it ends with, or the call itself when it made no store call.            *)
(***************************************************************************)
RequestOperations == {"save_conversation", "process_nlp_request"}

AssistantMessages == {m \in Messages : m.role = "assistant"}

\* C29: every process_nlp_request, whatever the provider and the outcome of
\* the provider call, adds the user message and then the assistant message
\* to the NLP context and appends exactly one conversation record whose
\* payload is the whole context: a record of at most max_context_length
\* messages that ends with the exchange of this request.
RequestAddsExchangeAndRecord ==
    [][last = Idle /\ last'.op \in RequestOperations =>
        \E u \in UserInputs, a \in AssistantMessages :
            /\ memory'.context =
                   MostRecent(memory.context \o <<Message("user", u), a>>,
                              memory.max_context_length)
            /\ Len(memory'.context) <= memory.max_context_length
            /\ LastItems(memory'.context, 2) = <<Message("user", u), a>>
            /\ \E r \in conversations' :
                  /\ conversations' = conversations \cup {r}
                  /\ r \notin conversations
                  /\ \A c \in conversations : c.id < r.id
                  /\ r.conversation_data = ContextJson(memory'.context)]_vars

\* A request under no fault that raised on a gemini response without
\* content: the user message added, no assistant message, no record.
RequestRaisedOnResponse ==
    /\ last.op = "process_nlp_request"
    /\ last.fault = "none"
    /\ last.raised = "KeyError"
    /\ memory.max_context_length = 2
    /\ memory.context = <<Message("user", "hi")>>
    /\ conversations = {}

\* A request under a database fault: both messages in the context, the
\* request history filled, and no record in the store.
RequestAnsweredWithoutRecord ==
    /\ last.op = "save_conversation"
    /\ last.fault = "db"
    /\ last.ret = FALSE
    /\ memory.max_context_length = 2
    /\ Len(memory.context) = 2
    /\ conversations = {}

\* A request under max_context_length 1 that appended its record: the
\* record holds the assistant message alone.
RecordWithoutUserMessage ==
    /\ Succeeded("save_conversation")
    /\ last.ret
    /\ memory.max_context_length = 1
    /\ \E r \in conversations \ last.before.conversations :
          r.conversation_data = ContextJson(<<Message("assistant", ResponseText)>>)

(***************************************************************************)
(* A session of the API integration manager alone: provider calls, a key   *)
(* set, and clear_history.  The session records at most MaxOverflow        *)
(* requests beyond HistoryLimit; its first MaxRequests requests go to      *)
(* gemini or to the local provider, the later ones to the local provider   *)
(* or to an unknown one.                                                   *)
(***************************************************************************)
MaxOverflow == 2

HistoryCalls == {<<"gemini", "ok">>, <<"ollama", "ok">>, <<"ollama", "error">>, <<"unknown", "ok">>}

HistoryNext ==
    \/ \E c \in HistoryCalls :
          /\ time < HistoryLimit + MaxOverflow
          /\ c # <<"ollama", "ok">> => time < MaxRequests
          /\ provider_call(c[1], c[2])
          /\ UNCHANGED exporting
    \/ /\ time < MaxRequests
       /\ api_integration_set_api_key("gemini", "k1")
       /\ UNCHANGED exporting
    \/ clear_history /\ UNCHANGED exporting
    \/ take_result

HistorySpec == Init /\ [][HistoryNext]_vars

\* The calls that made no request: the key missing, the provider unknown.
RejectedCall(result) == result.kind = "error" /\ result.text \in {KeyNotSet, UnknownProvider}

\* C30: the API request history is bounded.  After any provider calls and
\* clear_history calls it holds the requests recorded since the last clear,
\* in the order they were recorded, the HistoryLimit (100) most recent of
\* them when more were recorded; a call rejected for a missing API key or
\* an unknown provider adds no entry.
RequestHistoryBounded ==
    /\ [](/\ Len(memory.request_history) <= HistoryLimit
          /\ memory.request_history = MostRecent(recorded, HistoryLimit))
    /\ [][last = Idle /\ last'.op = "generate_text" /\ RejectedCall(last'.ret) =>
             memory'.request_history = memory.request_history]_vars

\* More than HistoryLimit requests recorded since a clear_history, the last
\* of them just now: the history holds HistoryLimit entries and its oldest
\* is not the first recorded since the clear.
OverflowAfterClear ==
    /\ last.op = "generate_text"
    /\ Len(recorded) > HistoryLimit
    /\ recorded[1].timestamp > 1
    /\ Len(memory.request_history) = HistoryLimit
    /\ memory.request_history[1] = recorded[Len(recorded) - HistoryLimit + 1]
    /\ memory.request_history[HistoryLimit].timestamp = time

\* A request under no fault after an import that failed half way: the
\* store is locked, the request returns with both messages in the context
\* and no record.
RequestRefusedUnderLock ==
    /\ last.op = "save_conversation"
    /\ last.fault = "none"
    /\ last.exc = "OperationalError"
    /\ last.ret = FALSE
    /\ memory.max_context_length = 2
    /\ Len(memory.context) = 2
    /\ conversations = last.before.conversations

====
